---- MODULE Spec2Model ----
(***************************************************************************)
(* State-machine model of rasa_core.policies.embedding_policy:             *)
(* EmbeddingPolicy (configuration loading, negative sampling, train,       *)
(* continue_training, predict_action_probabilities, persist, load), the    *)
(* similarity and the loss (_tf_sim, _tf_loss), the time-limited attention *)
(* recurrence (TimedNTM, _compute_time_attention,                          *)
(* TimeAttentionWrapper.call), and of rasa_core.remote:                    *)
(* RasaCoreClient.upload_model and RemoteAgent.process_message.            *)
(*                                                                         *)
(* Conventions.  Python None is 0 for an integer-valued attribute, "None"  *)
(* for a string-valued one, and the empty sequence for an array or list.   *)
(* A tensor handle is [graph, name]: the tf.Graph it lives in and its role.*)
(* Real numbers are exact rationals [num, den] where the code normalises   *)
(* and integers elsewhere.                                                 *)
(***************************************************************************)
EXTENDS Integers, Sequences, FiniteSets, TLC

VARIABLES
    policy,     \* the EmbeddingPolicy instance the caller holds
    disk,       \* what is stored under the persist / load path
    call,       \* the last call made on the policy and what it returned
    hp,         \* hidden-layer attributes of an instance (SpecParams)
    batch,      \* the state of one _create_batch_b call (SpecBatch)
    attn,       \* the state of one attention recurrence (SpecAttn)
    fit,        \* the state of one _train_tf run (SpecFit)
    cont,       \* the state of one continue_training call (SpecContinue)
    loss,       \* the state of one _tf_sim / _tf_loss evaluation (SpecLoss)
    remote      \* a RasaCoreClient / RemoteAgent and its server (SpecRemote)

vars == <<policy, disk, call, hp, batch, attn, fit, cont, loss, remote>>

----------------------------------------------------------------------------
(* Bounds of the model *)

\* largest domain.num_actions of a domain passed to train / predict
MaxActions == 3
\* largest `epochs` passed to continue_training
MaxEpochs == 2
\* largest num_neg passed to train as an override
MaxNumNeg == 2

----------------------------------------------------------------------------
(* Small helpers *)

Min(a, b) == IF a < b THEN a ELSE b

Max(a, b) == IF a < b THEN b ELSE a

RECURSIVE SumSeq(_)
SumSeq(s) == IF s = <<>> THEN 0 ELSE Head(s) + SumSeq(Tail(s))

\* a real number as the exact rational num / den
Score(num, den) == [num |-> num, den |-> den]

RECURSIVE GCD(_, _)
GCD(a, b) == IF b = 0 THEN a ELSE GCD(b, a % b)

\* the rational num / den in lowest terms (den > 0, num >= 0)
Frac(num, den) ==
    LET g == GCD(num, den) IN Score(num \div g, den \div g)

----------------------------------------------------------------------------
(* Configuration: EmbeddingPolicy.defaults and _load_params *)

\* defaults["num_neg"]
DefaultNumNeg == 20

\* defaults["attn_shift_range"] is None; a shift range is never negative
UnsetShiftRange == -1

\* self.characteristic_time is None; a mean dialogue length is never 0
NoTime == Score(0, 1)

\* the entries of EmbeddingPolicy.defaults that the modelled operations read
defaults ==
    [ similarity_type  |-> "cosine",
      num_neg          |-> DefaultNumNeg,
      use_attention    |-> TRUE,
      attn_shift_range |-> UnsetShiftRange ]

\* **kwargs of a call that passes no keyword argument
NoKwargs == <<>>

\* config = copy.deepcopy(self.defaults); config.update(kwargs)
merged_config(kwargs) == kwargs @@ defaults

\* _load_params(**kwargs): every attribute is re-read from defaults updated
\* with the kwargs of this call.  config_num_neg and config_attn_shift_range
\* are history fields: the values read from the configuration (before train
\* rewrites the attributes).
load_params(p, kwargs) ==
    LET config == merged_config(kwargs) IN
    [p EXCEPT !.similarity_type  = config.similarity_type,
              !.num_neg          = config.num_neg,
              !.config_num_neg   = config.num_neg,
              !.use_attention    = config.use_attention,
              !.attn_shift_range = config.attn_shift_range,
              !.config_attn_shift_range = config.attn_shift_range]

----------------------------------------------------------------------------
(* Graph, session and tensor handles *)

NoHandle == [graph |-> 0, name |-> "None"]

Handle(g, nm) == [graph |-> g, name |-> nm]

CollectionNames ==
    { "intent_placeholder", "action_placeholder", "slots_placeholder",
      "prev_act_placeholder", "similarity_op", "alignment_history_0" }

EmptyCollections == [c \in CollectionNames |-> <<>>]

\* self.graph is None
NoGraph == [id |-> 0, collections |-> EmptyCollections]

\* self.session is None
NoSession == [graph |-> 0, variables |-> <<>>]

\* tf.Graph(): an object distinct from the graph the live session runs
NewGraphId(p) == IF p.session.graph = 1 THEN 2 ELSE 1

\* the similarity values sim_op yields for the held-out tracker's last step:
\* one per action, as determined by the session's trainable parameters
SimVals == {-1, 1}

VariableValues(n) == [1..n -> SimVals]

\* featurizer.state_featurizer.create_encoded_all_actions(domain):
\* one fixed-width row per action of the domain
create_encoded_all_actions(n) ==
    [i \in 1..n |-> [j \in 1..n |-> IF i = j THEN 1 ELSE 0]]

----------------------------------------------------------------------------
(* EmbeddingPolicy.__init__ *)

new_policy(featurizer, encoded_all_actions, session, graph, a_in, b_in, c_in, b_prev_in, sim_op, alignment_history) ==
    load_params(
        [ featurizer          |-> featurizer,
          similarity_type     |-> "None",
          num_neg             |-> 0,
          config_num_neg      |-> 0,
          use_attention       |-> FALSE,
          attn_shift_range    |-> UnsetShiftRange,
          config_attn_shift_range |-> UnsetShiftRange,
          characteristic_time |-> NoTime,
          encoded_all_actions |-> encoded_all_actions,
          session             |-> session,
          graph               |-> graph,
          a_in                |-> a_in,
          b_in                |-> b_in,
          c_in                |-> c_in,
          b_prev_in           |-> b_prev_in,
          sim_op              |-> sim_op,
          alignment_history   |-> alignment_history,
          train_op            |-> NoHandle,
          is_training         |-> NoHandle ],
        NoKwargs)

\* cls(featurizer=featurizer), and EmbeddingPolicy() with the standard one
untrained_policy(featurizer) ==
    new_policy(featurizer, <<>>, NoSession, NoGraph,
               NoHandle, NoHandle, NoHandle, NoHandle, NoHandle, <<>>)

\* no exception message: the call returned
NoMessage == <<>>

NoCall ==
    [ op |-> "init", kwargs |-> NoKwargs, lengths |-> <<>>, message |-> NoMessage, n |-> 0, epochs |-> 0,
      ret |-> "returned", value |-> <<>>, num_sampled |-> 0 ]

----------------------------------------------------------------------------
(* EmbeddingPolicy.train *)

\* if kwargs: self._load_params(**kwargs)
train_load_params(p, kwargs) ==
    IF kwargs # NoKwargs THEN load_params(p, kwargs) ELSE p

\* np.mean(training_data.true_length)
mean(lengths) == Frac(SumSeq(lengths), Len(lengths))

\* int(self.characteristic_time / 2)
half_int(time) == time.num \div (2 * time.den)

\* self.characteristic_time = np.mean(training_data.true_length)
\* if self.attn_shift_range is None: self.attn_shift_range = int(... / 2)
train_set_times(p, lengths) ==
    LET time == mean(lengths) IN
    [p EXCEPT !.characteristic_time = time,
              !.attn_shift_range =
                  IF p.attn_shift_range = UnsetShiftRange
                  THEN half_int(time) ELSE p.attn_shift_range]

\* self.encoded_all_actions = ...create_encoded_all_actions(domain)
\* self.num_neg = min(self.num_neg, domain.num_actions - 1)
train_encode_and_clamp(p, n) ==
    [p EXCEPT !.encoded_all_actions = create_encoded_all_actions(n),
              !.num_neg = Min(p.num_neg, n - 1)]

\* self.graph = tf.Graph() and the placeholders created in it; _create_rnn
\* (reached from _create_tf_graph before _tf_sim) rebinds alignment_history
train_build_inputs(p) ==
    LET g == NewGraphId(p) IN
    [p EXCEPT !.graph       = [id |-> g, collections |-> EmptyCollections],
              !.a_in        = Handle(g, "a"),
              !.b_in        = Handle(g, "b"),
              !.c_in        = Handle(g, "slt"),
              !.b_prev_in   = Handle(g, "b_prev"),
              !.is_training = Handle(g, "is_training"),
              !.alignment_history =
                  IF p.use_attention THEN <<Handle(g, "alignments")>>
                                     ELSE <<>>]

\* mutant of similarity_known: _tf_sim computes the inner product for
\* every kind that is not 'cosine'
similarity_unchecked(p) == TRUE

\* _tf_sim: the similarity kinds it accepts; any other raises ValueError
similarity_known(p) == p.similarity_type \in {"cosine", "inner"}

\* self.sim_op, self.train_op, self.session = tf.Session(), then _train_tf:
\* global_variables_initializer and the gradient steps leave the session's
\* variables at some value
train_fit(p, variables) ==
    LET g == p.graph.id IN
    [p EXCEPT !.sim_op   = Handle(g, "sim"),
              !.train_op = Handle(g, "train_op"),
              !.session  = [graph |-> g, variables |-> variables]]

\* the instance after train(training_trackers, domain, **kwargs), for
\* trackers whose dialogues have the true lengths `lengths'
train(p, kwargs, n, lengths, variables) ==
    LET built == train_build_inputs(
                    train_encode_and_clamp(
                        train_set_times(train_load_params(p, kwargs),
                                        lengths), n))
    IN  IF similarity_known(built) THEN train_fit(built, variables)
                                   ELSE built

Train(kwargs, n, lengths, variables) ==
    LET after == train(policy, kwargs, n, lengths, variables) IN
    /\ policy' = after
    /\ call' = [ op |-> "train", kwargs |-> kwargs, lengths |-> lengths, message |-> NoMessage, n |-> n, epochs |-> 0,
                 ret |-> IF similarity_known(after) THEN "returned"
                                                    ELSE "ValueError",
                 value |-> <<>>,
                 num_sampled |-> IF similarity_known(after)
                                 THEN after.num_neg ELSE 0 ]
    /\ UNCHANGED <<disk, hp, batch, attn, fit, cont, loss, remote>>

----------------------------------------------------------------------------
(* session.run *)

\* session.run accepts only fetches and feeds that are tensors of the graph
\* the session was created in (None is not a tensor)
runnable(p, handles) ==
    /\ p.session # NoSession
    /\ \A h \in handles : h # NoHandle /\ h.graph = p.session.graph

SeqRange(s) == {s[i] : i \in DOMAIN s}

----------------------------------------------------------------------------
(* EmbeddingPolicy.continue_training *)

\* what one call with `epochs' >= 1 raises, or "returned"
continue_training_ret(p) ==
    IF p.encoded_all_actions = <<>> THEN "TypeError"
    ELSE IF p.session = NoSession THEN "AttributeError"
    ELSE IF runnable(p, {p.train_op, p.a_in, p.b_in, p.c_in, p.b_prev_in,
                         p.is_training})
         THEN "returned"
         ELSE "TypeError"

\* the instance after the call: each epoch runs train_op once, which
\* mutates the session's variables in place
continue_training(p, variables) ==
    IF continue_training_ret(p) = "returned"
    THEN [p EXCEPT !.session.variables = variables]
    ELSE p

ContinueTraining(epochs, variables) ==
    /\ policy' = continue_training(policy, variables)
    /\ call' = [ op |-> "continue_training", kwargs |-> NoKwargs, lengths |-> <<>>, message |-> NoMessage,
                 n |-> Len(policy.encoded_all_actions), epochs |-> epochs,
                 ret |-> continue_training_ret(policy),
                 value |-> <<>>,
                 num_sampled |-> policy.num_neg ]
    /\ UNCHANGED <<disk, hp, batch, attn, fit, cont, loss, remote>>

----------------------------------------------------------------------------
(* EmbeddingPolicy.predict_action_probabilities *)

\* [0.0] * domain.num_actions
zero_scores(n) == [i \in 1..n |-> Score(0, 1)]

\* np.exp on the grid of SimVals, up to a common positive factor (which
\* result /= np.sum(result) cancels): positive and strictly increasing
exp_scaled(s) == 2 ^ (s + 1)

\* result[result < 0] = 0
clip_negative(sim) == [i \in DOMAIN sim |-> Score(Max(sim[i], 0), 1)]

\* mutant of exp_normalise: `result /= np.sum(result)' is lost
exp_unnormalised(sim) ==
    [i \in DOMAIN sim |-> Score(exp_scaled(sim[i]), 1)]

\* result = np.exp(result); result /= np.sum(result)
exp_normalise(sim) ==
    LET e == [i \in DOMAIN sim |-> exp_scaled(sim[i])] IN
    [i \in DOMAIN sim |-> Score(e[i], SumSeq(e))]

\* neither branch of the if / elif applies
raw_scores(sim) == [i \in DOMAIN sim |-> Score(sim[i], 1)]

\* lines 840-849: the final step's similarity row, post-processed by the
\* instance's similarity_type attribute
scores_of(p, sim) ==
    IF p.similarity_type = "cosine" THEN clip_negative(sim)
    ELSE IF p.similarity_type = "inner" THEN exp_normalise(sim)
    ELSE raw_scores(sim)

predict_ret(p) ==
    IF p.session = NoSession THEN "returned"
    ELSE IF runnable(p, {p.sim_op, p.a_in, p.b_in, p.c_in, p.b_prev_in}
                         \cup SeqRange(p.alignment_history))
         THEN "returned"
         ELSE "ValueError"

\* mutant of predict_action_probabilities: the zero vector is sized by the
\* instance's own action table instead of domain.num_actions
predict_zeros_from_own_table(p, n) ==
    IF p.session = NoSession THEN zero_scores(Len(p.encoded_all_actions))
    ELSE IF predict_ret(p) = "returned"
         THEN scores_of(p, p.session.variables)
         ELSE <<>>

predict_action_probabilities(p, n) ==
    IF p.session = NoSession THEN zero_scores(n)
    ELSE IF predict_ret(p) = "returned"
         THEN scores_of(p, p.session.variables)
         ELSE <<>>

\* the instance after the call
predict_effect(p) == p

Predict(n) ==
    /\ policy' = predict_effect(policy)
    /\ call' = [ op |-> "predict", kwargs |-> NoKwargs, lengths |-> <<>>, message |-> NoMessage, n |-> n,
                 epochs |-> 0,
                 ret |-> predict_ret(policy),
                 value |-> predict_action_probabilities(policy, n),
                 num_sampled |-> 0 ]
    /\ UNCHANGED <<disk, hp, batch, attn, fit, cont, loss, remote>>

----------------------------------------------------------------------------
(* The persist / load path *)

NoMeta == [present |-> FALSE, collections |-> EmptyCollections]

\* os.path.exists(path) is False
AbsentPath ==
    [ exists |-> FALSE, featurizer |-> "None", meta |-> NoMeta,
      variables |-> <<>>, encoded_all_actions |-> <<>> ]

\* a directory that holds a persisted featurizer and no checkpoint
FeaturizerOnlyPath == [AbsentPath EXCEPT !.exists = TRUE,
                                         !.featurizer = "stored"]

----------------------------------------------------------------------------
(* EmbeddingPolicy.persist *)

\* mutant of reset_collection: graph.clear_collection(name) is lost
add_to_collection_only(collections, name, handle) ==
    [collections EXCEPT ![name] = Append(@, handle)]

\* graph.clear_collection(name); graph.add_to_collection(name, handle)
reset_collection(collections, name, handle) ==
    [collections EXCEPT ![name] = <<handle>>]

\* lines 866-889: the five fixed collections, then one per alignment tensor
persist_collections(p) ==
    LET c1 == reset_collection(p.graph.collections,
                               "intent_placeholder", p.a_in)
        c2 == reset_collection(c1, "action_placeholder", p.b_in)
        c3 == reset_collection(c2, "slots_placeholder", p.c_in)
        c4 == reset_collection(c3, "prev_act_placeholder", p.b_prev_in)
        c5 == reset_collection(c4, "similarity_op", p.sim_op)
    IN  IF Len(p.alignment_history) > 0
        THEN reset_collection(c5, "alignment_history_0",
                              p.alignment_history[1])
        ELSE c5

\* the early return of lines 855-858
persist_skipped(p) == p.session = NoSession

\* saver.save(self.session, checkpoint) needs the session to run the graph
\* the Saver was built in
persist_ret(p) ==
    IF persist_skipped(p) THEN "returned"
    ELSE IF p.session.graph = p.graph.id THEN "returned"
    ELSE "ValueError"

\* the instance after persist(path)
persist_effect(p) ==
    IF persist_skipped(p) THEN p
    ELSE [p EXCEPT !.graph.collections = persist_collections(p)]

\* the meta graph file: every collection with its tensors by name
export_meta_graph(collections) ==
    [ present |-> TRUE,
      collections |->
          [c \in CollectionNames |->
              [i \in DOMAIN collections[c] |-> collections[c][i].name]] ]

\* mutant of persist_files: featurizer.persist(path) runs before the
\* `session is None' check
persist_files_featurizer_first(p, d) ==
    LET d1 == [d EXCEPT !.exists = TRUE, !.featurizer = p.featurizer] IN
    IF persist_skipped(p) THEN d1
    ELSE IF persist_ret(p) = "returned"
         THEN [d1 EXCEPT
                 !.meta = export_meta_graph(persist_collections(p)),
                 !.variables = p.session.variables,
                 !.encoded_all_actions = p.encoded_all_actions]
         ELSE d1

\* what is under the path after persist(path)
persist_files(p, d) ==
    IF persist_skipped(p) THEN d
    ELSE LET d1 == [d EXCEPT !.exists = TRUE,
                             !.featurizer = p.featurizer]
         IN  IF persist_ret(p) = "returned"
             THEN [d1 EXCEPT
                     !.meta = export_meta_graph(persist_collections(p)),
                     !.variables = p.session.variables,
                     !.encoded_all_actions = p.encoded_all_actions]
             ELSE d1

Persist ==
    /\ policy' = persist_effect(policy)
    /\ disk' = persist_files(policy, disk)
    /\ call' = [ op |-> "persist", kwargs |-> NoKwargs, lengths |-> <<>>, message |-> NoMessage, n |-> 0,
                 epochs |-> 0, ret |-> persist_ret(policy),
                 value |-> <<>>, num_sampled |-> 0 ]
    /\ UNCHANGED <<hp, batch, attn, fit, cont, loss, remote>>

----------------------------------------------------------------------------
(* EmbeddingPolicy.load *)

load_ret(d) == IF d.exists THEN "returned" ELSE "Exception"

\* os.getcwd(), as path components
WorkingDir == <<"/", "srv">>

\* os.path.normpath on components: "." is dropped and ".." drops the
\* component before it
RECURSIVE normpath(_, _)
normpath(done, rest) ==
    IF rest = <<>> THEN done
    ELSE IF Head(rest) = "." THEN normpath(done, Tail(rest))
    ELSE IF Head(rest) = ".." /\ Len(done) > 1
         THEN normpath(SubSeq(done, 1, Len(done) - 1), Tail(rest))
    ELSE IF Head(rest) = ".." THEN normpath(done, Tail(rest))
    ELSE normpath(Append(done, Head(rest)), Tail(rest))

\* mutant of abspath: the path is used as it was given
abspath_as_given(path) == path

\* os.path.abspath(path): normpath(join(os.getcwd(), path))
abspath(path) ==
    IF path # <<>> /\ Head(path) = "/"
    THEN normpath(<<"/">>, Tail(path))
    ELSE normpath(WorkingDir, path)

\* "Failed to load dialogue model. Path {} doesn't exist"
\*     .format(os.path.abspath(path))
load_message(path) ==
    [ text |-> "Failed to load dialogue model. Path {} doesn't exist",
      path |-> abspath(path) ]

\* tf.get_collection(name) in the imported graph g
get_collection(meta, g, name) ==
    [i \in DOMAIN meta.collections[name] |->
        Handle(g, meta.collections[name][i])]

\* mutant of load: the instance is built without the stored featurizer
load_with_standard_featurizer(d) == untrained_policy("standard")

\* the instance load(path) returns when the path exists
load(d) ==
    IF d.meta.present
    THEN LET g == 1 IN
         new_policy(d.featurizer,
                    d.encoded_all_actions,
                    [graph |-> g, variables |-> d.variables],
                    [id |-> g,
                     collections |->
                         [c \in CollectionNames |->
                             get_collection(d.meta, g, c)]],
                    get_collection(d.meta, g, "intent_placeholder")[1],
                    get_collection(d.meta, g, "action_placeholder")[1],
                    get_collection(d.meta, g, "slots_placeholder")[1],
                    get_collection(d.meta, g, "prev_act_placeholder")[1],
                    get_collection(d.meta, g, "similarity_op")[1],
                    get_collection(d.meta, g, "alignment_history_0"))
    ELSE untrained_policy(d.featurizer)

\* policy = EmbeddingPolicy.load(path): the caller holds the returned
\* instance from here on; a raise leaves it with the one it had
Load(path) ==
    /\ policy' = IF disk.exists THEN load(disk) ELSE policy
    /\ call' = [ op |-> "load", kwargs |-> NoKwargs, lengths |-> <<>>,
                 message |-> IF disk.exists THEN NoMessage
                                            ELSE load_message(path),
                 n |-> 0,
                 epochs |-> 0, ret |-> load_ret(disk),
                 value |-> <<>>, num_sampled |-> 0 ]
    /\ UNCHANGED <<disk, hp, batch, attn, fit, cont, loss, remote>>

----------------------------------------------------------------------------
(* The life cycle of one policy: Spec *)

\* spellings of the one directory persist and load are called with
LoadPaths ==
    { <<"models">>, <<".", "models">>, <<"tmp", "..", "models">>,
      <<"/", "srv", "models">> }

IdleHp == <<>>
IdleBatch == <<>>
IdleAttn == <<>>
IdleFit == <<>>
IdleCont == <<>>
IdleLoss == <<>>
IdleRemote == <<>>

\* domain.num_actions of the domain passed to train in Spec: the smallest
\* domain with a wrong action to sample
LifecycleDomains == {2}

\* true lengths of the training dialogues where the lengths are not under
\* study: two dialogues of two and three steps
FixedLengths == <<2, 3>>

\* keyword arguments passed to train in Spec
LifecycleKwargs ==
    { NoKwargs,
      [similarity_type |-> "inner"],
      [use_attention |-> FALSE],
      [similarity_type |-> "inner", use_attention |-> FALSE],
      [similarity_type |-> "euclidean"] }

Init ==
    /\ policy = untrained_policy("standard")
    /\ disk \in {AbsentPath, FeaturizerOnlyPath}
    /\ call = NoCall
    /\ loss = IdleLoss
    /\ remote = IdleRemote
    /\ fit = IdleFit
    /\ cont = IdleCont
    /\ hp = IdleHp
    /\ batch = IdleBatch
    /\ attn = IdleAttn

Next ==
    \/ \E kwargs \in LifecycleKwargs, n \in LifecycleDomains :
          \E variables \in VariableValues(n) :
              Train(kwargs, n, FixedLengths, variables)
    \/ \E epochs \in 1..MaxEpochs :
          \E variables \in VariableValues(Len(policy.encoded_all_actions)) :
              ContinueTraining(epochs, variables)
    \/ \E n \in 1..MaxActions : Predict(n)
    \/ Persist
    \/ \E path \in LoadPaths : Load(path)

Spec == Init /\ [][Next]_vars

----------------------------------------------------------------------------
(* Sequences of train calls on one instance: SpecConfig *)

\* domains passed to train in SpecConfig
ConfigDomains == 2..MaxActions

\* keyword arguments passed to train in SpecConfig
ConfigKwargs ==
    {NoKwargs}
    \cup {[similarity_type |-> s] : s \in {"cosine", "inner"}}
    \cup {[num_neg |-> k] : k \in 1..MaxNumNeg}
    \cup {[similarity_type |-> s, num_neg |-> k] :
             s \in {"cosine", "inner"}, k \in 1..MaxNumNeg}

NextConfig ==
    \E kwargs \in ConfigKwargs, n \in ConfigDomains :
        \E variables \in VariableValues(n) :
            Train(kwargs, n, FixedLengths, variables)

SpecConfig == Init /\ [][NextConfig]_vars

----------------------------------------------------------------------------
(* Claims about train's configuration handling (SpecConfig) *)

\* C3 (as claimed): in every train call the number of negatives sampled per
\* step is min(configured num_neg, num_actions - 1), whatever calls came
\* before on the same instance.
C3_SampledIsMinOfConfigured ==
    (call.op = "train" /\ call.ret = "returned")
        => call.num_sampled = Min(policy.config_num_neg, call.n - 1)

\* C10 (as claimed): an override given to an earlier train call stays in
\* effect in a later train call that does not override the same key (here
\* the key similarity_type, whose value train itself never rewrites).
C10_OverrideStaysInEffect ==
    [][(/\ call'.op = "train"
        /\ "similarity_type" \notin DOMAIN call'.kwargs
        /\ policy.similarity_type # defaults.similarity_type)
          => policy'.similarity_type = policy.similarity_type]_vars

----------------------------------------------------------------------------
(* Claims about the life cycle (Spec) *)

\* C6 (as claimed): persist followed by load of the same path yields an
\* instance whose predict_action_probabilities returns the scores the
\* persisted instance returns for the same tracker.
C6_RoundTripSameScores ==
    [][(/\ call.op = "persist"
        /\ call.ret = "returned"
        /\ policy.session # NoSession
        /\ call'.op = "load")
          => /\ predict_ret(policy') = predict_ret(policy)
             /\ \A n \in 1..MaxActions :
                   predict_action_probabilities(policy', n)
                       = predict_action_probabilities(policy, n)]_vars

\* C7: predict_action_probabilities on an instance without a session returns
\* exactly domain.num_actions zeros, does not raise, and changes nothing.
C7_UntrainedPredictReturnsZeros ==
    [][(call'.op = "predict" /\ policy.session = NoSession)
          => /\ call'.ret = "returned"
             /\ Len(call'.value) = call'.n
             /\ \A i \in 1..call'.n : call'.value[i] = Score(0, 1)
             /\ UNCHANGED <<policy, disk>>]_vars

\* C7 witness: predict has returned on an instance loaded from a path that
\* held no checkpoint, for the largest domain.
C7_Witness ==
    /\ call.op = "predict"
    /\ call.n = MaxActions
    /\ call.value # <<>>
    /\ policy.session = NoSession
    /\ policy.featurizer = "stored"

\* C8: persist on an instance without a session writes nothing under the
\* path, does not raise, and changes nothing in the instance.
C8_UntrainedPersistIsNoOp ==
    [][(call'.op = "persist" /\ policy.session = NoSession)
          => /\ call'.ret = "returned"
             /\ UNCHANGED <<policy, disk>>]_vars

\* C8 witness: persist has returned on a session-less instance and the path
\* still does not exist.
C8_Witness ==
    /\ call.op = "persist"
    /\ policy.session = NoSession
    /\ ~disk.exists

\* C9 (as claimed): continue_training on an instance just restored by load
\* from a checkpoint runs its gradient steps, as on a trained instance.
C9_RestoredInstanceContinues ==
    [][(/\ call.op = "load"
        /\ call.ret = "returned"
        /\ policy.session # NoSession
        /\ call'.op = "continue_training")
          => call'.ret = "returned"]_vars

----------------------------------------------------------------------------
(* EmbeddingPolicy._create_batch_b: SpecBatch *)

\* (dialogues, steps) of the batches built: batch_pos_b.shape[0:2]
BatchShapes == {<<1, 1>>, <<1, 2>>, <<2, 1>>}

\* the (b, h) pairs of a batch of the given shape
Cells(shape) == (0..(shape[1] - 1)) \X (0..(shape[2] - 1))

\* _create_Y_actions_for_X: Y[b, h] = encoded_all_actions[actions_for_X[b, h]]
\* (rows are indexed from 0 in the code and from 1 here)
create_Y_actions_for_X(encoded_all_actions, actions_for_X) ==
    [c \in DOMAIN actions_for_X |-> encoded_all_actions[actions_for_X[c] + 1]]

\* mutant of negative_indexes: the `if i != intent_ids[b, h]' filter is lost
negative_indexes_unfiltered(encoded_all_actions, intent_id) ==
    0..(Len(encoded_all_actions) - 1)

\* [i for i in range(self.encoded_all_actions.shape[0])
\*    if i != intent_ids[b, h]]
negative_indexes(encoded_all_actions, intent_id) ==
    {i \in 0..(Len(encoded_all_actions) - 1) : i # intent_id}

\* what np.random.choice(negative_indexes, size=num_neg) can return:
\* replace defaults to True, so every array of num_neg drawn values
random_choice(population, size) == [1..size -> population]

\* np.concatenate([batch_pos_b, batch_neg_b], -2) for one (b, h):
\* the positive row, then self.encoded_all_actions[negs]
candidates(encoded_all_actions, pos_row, negs) ==
    <<pos_row>> \o [j \in DOMAIN negs |-> encoded_all_actions[negs[j] + 1]]

\* the batch _create_batch_b returns, given what was drawn for each (b, h)
create_batch_b(encoded_all_actions, batch_pos_b, negs) ==
    [c \in DOMAIN batch_pos_b |->
        candidates(encoded_all_actions, batch_pos_b[c], negs[c])]

\* the draws _create_batch_b can make for a whole batch
batch_draws(encoded_all_actions, intent_ids, num_neg) ==
    { negs \in [DOMAIN intent_ids ->
                   random_choice(0..(Len(encoded_all_actions) - 1), num_neg)] :
        \A c \in DOMAIN intent_ids :
            negs[c] \in random_choice(
                            negative_indexes(encoded_all_actions,
                                             intent_ids[c]),
                            num_neg) }

\* an instance about to build a batch: train has clamped num_neg to
\* num_actions - 1 at most; an instance restored by load still has the
\* configured value
InitBatch ==
    /\ policy = untrained_policy("standard")
    /\ disk = AbsentPath
    /\ call = NoCall
    /\ loss = IdleLoss
    /\ remote = IdleRemote
    /\ fit = IdleFit
    /\ cont = IdleCont
    /\ hp = IdleHp
    /\ attn = IdleAttn
    /\ \E n \in 2..MaxActions, num_neg \in 1..MaxNumNeg,
          shape \in BatchShapes, caller \in {"train", "continue_training"} :
          \E intent_ids \in [Cells(shape) -> 0..(n - 1)] :
             /\ (caller = "train") => num_neg <= n - 1
             /\ batch = [ pc |-> "call",
                          caller |-> caller,
                          encoded_all_actions |->
                              create_encoded_all_actions(n),
                          num_neg |-> num_neg,
                          intent_ids |-> intent_ids,
                          batch_pos_b |->
                              create_Y_actions_for_X(
                                  create_encoded_all_actions(n), intent_ids),
                          negs |-> <<>>,
                          batch_b |-> <<>> ]

CreateBatchB ==
    /\ batch.pc = "call"
    /\ \E negs \in batch_draws(batch.encoded_all_actions, batch.intent_ids,
                               batch.num_neg) :
          batch' = [batch EXCEPT
                      !.pc = "returned",
                      !.negs = negs,
                      !.batch_b = create_batch_b(batch.encoded_all_actions,
                                                 batch.batch_pos_b, negs)]
    /\ UNCHANGED <<policy, disk, call, hp, attn, fit, cont, loss, remote>>

NextBatch == CreateBatchB

SpecBatch == InitBatch /\ [][NextBatch]_vars

\* C1: in every batch _create_batch_b builds, for every (dialogue, step)
\* pair, candidate 0 is the encoded vector of the step's ground-truth action,
\* the candidates after it are the encoded vectors of the sampled negatives,
\* and no sampled negative index is the ground-truth index.
C1_NegativesExcludeGroundTruth ==
    batch.pc = "returned" =>
        \A c \in DOMAIN batch.intent_ids :
            /\ Len(batch.batch_b[c]) = 1 + batch.num_neg
            /\ batch.batch_b[c][1]
                   = batch.encoded_all_actions[batch.intent_ids[c] + 1]
            /\ \A j \in 1..batch.num_neg :
                  /\ batch.negs[c][j] # batch.intent_ids[c]
                  /\ batch.batch_b[c][1 + j]
                         = batch.encoded_all_actions[batch.negs[c][j] + 1]

\* C1 witness: a batch built in continue_training with two steps whose
\* ground truths differ and more than one negative per step.
C1_Witness ==
    /\ batch.pc = "returned"
    /\ batch.caller = "continue_training"
    /\ batch.num_neg > 1
    /\ \E c, d \in DOMAIN batch.intent_ids :
          batch.intent_ids[c] # batch.intent_ids[d]

\* C2 (as claimed): whenever num_neg is in 1..num_actions-1, the negatives
\* of one step are pairwise distinct action indices.
C2_NegativesPairwiseDistinct ==
    (/\ batch.pc = "returned"
     /\ batch.num_neg <= Len(batch.encoded_all_actions) - 1)
        => \A c \in DOMAIN batch.intent_ids :
              \A j, k \in 1..batch.num_neg :
                  j # k => batch.negs[c][j] # batch.negs[c][k]

----------------------------------------------------------------------------
(* _check_hidden_layer_sizes and _load_nn_architecture_params: SpecParams *)

\* mutant of check_hidden_layer_sizes: `layer_size = layer_size[0]' is lost,
\* so a list of the wrong length is kept as it is
check_hidden_layer_sizes_keeps_list(num_layers, layer_size) ==
    LET n == IF num_layers < 0 THEN 0 ELSE num_layers IN
    IF Len(layer_size) # n /\ Len(layer_size) = 0
    THEN [raised |-> TRUE, num_layers |-> n, layer_size |-> layer_size]
    ELSE [raised |-> FALSE, num_layers |-> n, layer_size |-> layer_size]

\* _check_hidden_layer_sizes(num_layers, layer_size) for a list layer_size:
\* what it returns, or that it raises ValueError
check_hidden_layer_sizes(num_layers, layer_size) ==
    LET n == IF num_layers < 0 THEN 0 ELSE num_layers IN
    IF Len(layer_size) # n
    THEN IF Len(layer_size) = 0
         THEN [raised |-> TRUE, num_layers |-> n, layer_size |-> layer_size]
         ELSE [raised |-> FALSE, num_layers |-> n,
               layer_size |-> [i \in 1..n |-> layer_size[1]]]
    ELSE [raised |-> FALSE, num_layers |-> n, layer_size |-> layer_size]

\* mutant of load_nn_architecture_params: with a shared vocabulary only the
\* layer counts are compared, so tower b keeps its own sizes when the counts
\* agree
load_nn_architecture_params_compares_counts(h, config) ==
    LET a == check_hidden_layer_sizes(config.num_hidden_layers_a,
                                      config.hidden_layer_size_a)
        b == check_hidden_layer_sizes(config.num_hidden_layers_b,
                                      config.hidden_layer_size_b)
        shared == h.share_embedding /\ a.num_layers # b.num_layers
    IN  IF a.raised
        THEN [h EXCEPT !.num_hidden_layers_a = config.num_hidden_layers_a,
                       !.hidden_layer_size_a = config.hidden_layer_size_a,
                       !.ret = "ValueError"]
        ELSE IF b.raised
        THEN [h EXCEPT !.num_hidden_layers_a = a.num_layers,
                       !.hidden_layer_size_a = a.layer_size,
                       !.num_hidden_layers_b = config.num_hidden_layers_b,
                       !.hidden_layer_size_b = config.hidden_layer_size_b,
                       !.ret = "ValueError"]
        ELSE [h EXCEPT !.num_hidden_layers_a = a.num_layers,
                       !.hidden_layer_size_a = a.layer_size,
                       !.num_hidden_layers_b =
                           IF shared THEN a.num_layers ELSE b.num_layers,
                       !.hidden_layer_size_b =
                           IF shared THEN a.layer_size ELSE b.layer_size,
                       !.ret = "returned"]

\* _load_nn_architecture_params(config) on an instance h: the attributes are
\* assigned from the configuration before each check, so a raise leaves the
\* unchecked values behind
load_nn_architecture_params(h, config) ==
    LET h1 == [h EXCEPT !.num_hidden_layers_a = config.num_hidden_layers_a,
                        !.hidden_layer_size_a = config.hidden_layer_size_a]
        a  == check_hidden_layer_sizes(h1.num_hidden_layers_a,
                                       h1.hidden_layer_size_a)
        h2 == [h1 EXCEPT !.num_hidden_layers_a = a.num_layers,
                         !.hidden_layer_size_a = a.layer_size]
        h3 == [h2 EXCEPT !.num_hidden_layers_b = config.num_hidden_layers_b,
                         !.hidden_layer_size_b = config.hidden_layer_size_b]
        b  == check_hidden_layer_sizes(h3.num_hidden_layers_b,
                                       h3.hidden_layer_size_b)
        h4 == [h3 EXCEPT !.num_hidden_layers_b = b.num_layers,
                         !.hidden_layer_size_b = b.layer_size]
        h5 == IF /\ h4.share_embedding
                 /\ \/ h4.num_hidden_layers_a # h4.num_hidden_layers_b
                    \/ h4.hidden_layer_size_a # h4.hidden_layer_size_b
              THEN [h4 EXCEPT !.num_hidden_layers_b = h4.num_hidden_layers_a,
                              !.hidden_layer_size_b = h4.hidden_layer_size_a]
              ELSE h4
    IN  IF a.raised THEN [h1 EXCEPT !.ret = "ValueError"]
        ELSE IF b.raised THEN [h3 EXCEPT !.ret = "ValueError"]
        ELSE [h5 EXCEPT !.ret = "returned"]

\* the nn-architecture entries of EmbeddingPolicy.defaults
default_architecture ==
    [ num_hidden_layers_a |-> 0, hidden_layer_size_a |-> <<>>,
      num_hidden_layers_b |-> 0, hidden_layer_size_b |-> <<>> ]

\* largest num_hidden_layers_a / num_hidden_layers_b configured
MaxLayers == 2

\* layer counts configured: negative, zero and positive
LayerCounts == (-1)..MaxLayers

\* hidden_layer_size lists configured: empty, one element, two different
\* elements, three elements
LayerSizeLists == { <<>>, <<1>>, <<1, 2>>, <<2, 1, 1>> }

ArchitectureConfigs ==
    [ num_hidden_layers_a : LayerCounts, hidden_layer_size_a : LayerSizeLists,
      num_hidden_layers_b : LayerCounts, hidden_layer_size_b : LayerSizeLists ]

\* the instance __init__ leaves: _load_params() with no kwargs; the
\* featurizer decides share_embedding
InitParams ==
    /\ policy = untrained_policy("standard")
    /\ disk = AbsentPath
    /\ call = NoCall
    /\ loss = IdleLoss
    /\ remote = IdleRemote
    /\ fit = IdleFit
    /\ cont = IdleCont
    /\ batch = IdleBatch
    /\ attn = IdleAttn
    /\ \E share \in BOOLEAN :
          hp = [ load_nn_architecture_params(
                     [ share_embedding |-> share,
                       num_hidden_layers_a |-> 0,
                       hidden_layer_size_a |-> <<>>,
                       num_hidden_layers_b |-> 0,
                       hidden_layer_size_b |-> <<>>,
                       config |-> default_architecture,
                       ret |-> "returned",
                       pc |-> "init" ],
                     default_architecture)
                 EXCEPT !.pc = "init" ]

\* _load_params(**kwargs) with nn-architecture overrides, as train calls it
LoadParams(config) ==
    /\ hp' = [load_nn_architecture_params(hp, config)
                 EXCEPT !.config = config, !.pc = "loaded"]
    /\ UNCHANGED <<policy, disk, call, batch, attn, fit, cont, loss, remote>>

NextParams == \E config \in ArchitectureConfigs : LoadParams(config)

SpecParams == InitParams /\ [][NextParams]_vars

\* the count _check_hidden_layer_sizes works with
ClampedCount(c) == IF c < 0 THEN 0 ELSE c

\* the configuration error: an empty size list with a positive layer count
EmptyWithLayers(c, l) == l = <<>> /\ ClampedCount(c) > 0

\* the repairs the claim describes, for a configured pair (c, l) and the
\* stored pair (sc, sl)
RepairedAsClaimed(c, l, sc, sl) ==
    /\ Len(sl) = sc
    /\ (c < 0) => sc = 0
    /\ (Len(l) # 0 /\ Len(l) # ClampedCount(c))
          => sl = [i \in 1..sc |-> l[1]]

\* C4 (as claimed): _load_params raises ValueError exactly when a tower's
\* size list is empty with a layer count > 0; otherwise, for tower a and for
\* tower b, the stored list has the stored count's length, a negative count
\* is stored as 0 and a list of the wrong non-zero length is replaced by its
\* first element repeated count times.
C4_EveryTowerRepairedAsClaimed ==
    hp.pc = "loaded" =>
        /\ (hp.ret = "ValueError")
              <=> \/ EmptyWithLayers(hp.config.num_hidden_layers_a,
                                     hp.config.hidden_layer_size_a)
                  \/ EmptyWithLayers(hp.config.num_hidden_layers_b,
                                     hp.config.hidden_layer_size_b)
        /\ (hp.ret = "returned")
              => /\ RepairedAsClaimed(hp.config.num_hidden_layers_a,
                                      hp.config.hidden_layer_size_a,
                                      hp.num_hidden_layers_a,
                                      hp.hidden_layer_size_a)
                 /\ RepairedAsClaimed(hp.config.num_hidden_layers_b,
                                      hp.config.hidden_layer_size_b,
                                      hp.num_hidden_layers_b,
                                      hp.hidden_layer_size_b)

\* C4 (amended): as claimed for tower a, and for tower b when the featurizer
\* does not share its vocabulary; when it does, tower b's stored count and
\* list are tower a's stored count and list (so the lengths still agree).
C4_RepairedUnlessShared ==
    hp.pc = "loaded" =>
        /\ (hp.ret = "ValueError")
              <=> \/ EmptyWithLayers(hp.config.num_hidden_layers_a,
                                     hp.config.hidden_layer_size_a)
                  \/ EmptyWithLayers(hp.config.num_hidden_layers_b,
                                     hp.config.hidden_layer_size_b)
        /\ (hp.ret = "returned")
              => /\ RepairedAsClaimed(hp.config.num_hidden_layers_a,
                                      hp.config.hidden_layer_size_a,
                                      hp.num_hidden_layers_a,
                                      hp.hidden_layer_size_a)
                 /\ Len(hp.hidden_layer_size_b) = hp.num_hidden_layers_b
                 /\ IF hp.share_embedding
                    THEN /\ hp.num_hidden_layers_b = hp.num_hidden_layers_a
                         /\ hp.hidden_layer_size_b = hp.hidden_layer_size_a
                    ELSE RepairedAsClaimed(hp.config.num_hidden_layers_b,
                                           hp.config.hidden_layer_size_b,
                                           hp.num_hidden_layers_b,
                                           hp.hidden_layer_size_b)

\* C4 witness: _load_params has returned, without shared vocabulary, for a
\* negative count on tower a and a too long list on tower b, which is now
\* its first element repeated.
C4_Witness ==
    /\ hp.pc = "loaded"
    /\ hp.ret = "returned"
    /\ ~hp.share_embedding
    /\ hp.config.num_hidden_layers_a < 0
    /\ hp.config.hidden_layer_size_a # <<>>
    /\ hp.config.num_hidden_layers_b = 2
    /\ hp.config.hidden_layer_size_b = <<2, 1, 1>>
    /\ hp.hidden_layer_size_b = <<2, 2>>

----------------------------------------------------------------------------
(* TimedNTM, _compute_time_attention, TimeAttentionWrapper.call: SpecAttn *)

\* memory_time: the padded length of the dialogues fed to dynamic_rnn, which
\* is also the number of recurrence steps
MaxTime == 3
\* largest attn_shift_range
MaxShift == 3

\* tf.reverse(x, axis=[1])
reverse(x) == [i \in 1..Len(x) |-> x[Len(x) + 1 - i]]

\* an input element of a 'SAME'-padded convolution: zero outside the input
padded(x, i) == IF i \in 1..Len(x) THEN x[i] ELSE 0

\* tf.nn.depthwise_conv2d_native(x, w, [1, 1, 1, 1], 'SAME') along the
\* width, for one channel: out[i] = sum_j x[i + j - pad_left] * w[j] with
\* pad_left = (len(w) - 1) // 2
depthwise_conv_same(x, w) ==
    LET pad_left == (Len(w) - 1) \div 2 IN
    [i \in 1..Len(x) |->
        SumSeq([j \in 1..Len(w) |-> padded(x, i + j - 1 - pad_left) * w[j]])]

\* tf.nn.softmax(x) up to its positive normaliser, which the renormalisation
\* after sharpening cancels: the exponentials of the entries
softmax_weights(x) == [i \in 1..Len(x) |-> exp_scaled(x[i])]

\* mutant of renormalise: the powers are divided by their largest entry
\* (reduce_max) instead of their sum
renormalise_by_max(w) ==
    LET top == CHOOSE m \in {w[i] : i \in 1..Len(w)} :
                   \A i \in 1..Len(w) : w[i] <= m
    IN  [i \in 1..Len(w) |-> Frac(w[i], top)]

\* powed_probs / (reduce_sum(powed_probs) + 1e-32): the entries over their
\* sum (the sum is positive here, and 1e-32 is below the resolution)
renormalise(w) == [i \in 1..Len(w) |-> Frac(w[i], SumSeq(w))]

\* mutant of interpolate: the gate is applied to the whole of probs, the
\* newest position included
interpolate_scales_newest(g, probs, probs_state) ==
    [i \in 1..(Len(probs) - 1) |-> g * probs[i] + (1 - g) * probs_state[i]]
        \o <<g * probs[Len(probs)]>>

\* g * probs[:, :-1] + (1 - g) * probs_state, then probs[:, -1:]
interpolate(g, probs, probs_state) ==
    [i \in 1..(Len(probs) - 1) |-> g * probs[i] + (1 - g) * probs_state[i]]
        \o <<probs[Len(probs)]>>

\* mutant of timed_ntm: next_probs_state is taken after the softmax, as in
\* the original NTM
timed_ntm_state_after_softmax(g, s_w, gamma, probs, probs_state) ==
    LET blended == interpolate(g, probs, probs_state)
        limited == softmax_weights(blended)
        shifted == IF s_w # <<>>
                   THEN reverse(depthwise_conv_same(reverse(limited), s_w))
                   ELSE limited
        powed   == [i \in 1..Len(shifted) |-> shifted[i] ^ gamma]
    IN  [probs |-> renormalise(powed), next_probs_state |-> limited]

\* TimedNTM.__call__(cell_output, probs, probs_state), given what its dense
\* layers yield for cell_output: the gate g, the shift weights s_w (the
\* empty sequence when self.s_w is None) and the sharpening power gamma
timed_ntm(g, s_w, gamma, probs, probs_state) ==
    LET blended == interpolate(g, probs, probs_state)
        limited == softmax_weights(blended)
        shifted == IF s_w # <<>>
                   THEN reverse(depthwise_conv_same(reverse(limited), s_w))
                   ELSE limited
        powed   == [i \in 1..Len(shifted) |-> shifted[i] ^ gamma]
    IN  [probs |-> renormalise(powed), next_probs_state |-> blended]

\* zeros[:, time+1:] of an array of the memory's length
zeros_from(len, from) == [i \in 1..(len - from) |-> 0]

\* mutant of compute_time_attention: the raw alignments are not cut to
\* positions 0..time before they are handed to the NTM
compute_time_attention_uncut(alignments, attention_state, time, g, s_w, gamma) ==
    LET len == Len(alignments)
        ntm == timed_ntm(g, s_w, gamma, alignments,
                         SubSeq(attention_state, 1, len - 1))
    IN  [alignments |-> ntm.probs,
         next_attention_state |-> ntm.next_probs_state,
         probs |-> alignments,
         probs_state |-> SubSeq(attention_state, 1, len - 1)]

\* _compute_time_attention: the alignments and the next attention state
\* (positions are 0-based in the code and 1-based here)
compute_time_attention(alignments, attention_state, time, g, s_w, gamma) ==
    LET len         == Len(alignments)
        probs       == SubSeq(alignments, 1, time + 1)
        probs_state == SubSeq(attention_state, 1, time)
        ntm         == timed_ntm(g, s_w, gamma, probs, probs_state)
        pad         == zeros_from(len, time + 1)
    IN  [alignments |->
             ntm.probs \o [i \in 1..Len(pad) |-> Frac(pad[i], 1)],
         next_attention_state |-> ntm.next_probs_state \o pad,
         probs |-> probs,
         probs_state |-> probs_state]

\* raw scores the attention mechanism yields (probability_fn = tf.identity)
ScoreVals == {0, 1}

\* values of the interpolation gate sigmoid(dense(cell_output)) at its
\* two saturated ends
GateVals == {0, 1}

\* values of gamma = softplus(dense(cell_output)) + 1.0
GammaVals == {1, 2}

\* softmax outputs of the shift layer, up to their normaliser: uniform, or
\* with a heavier tap one position before or after the centre (taps next to
\* the centre reach into a prefix however short it is)
ShiftWeights(shift_range) ==
    IF shift_range = 0 THEN {<<>>}
    ELSE LET width == 2 * shift_range + 1 IN
         {[j \in 1..width |-> 1]}
         \cup {[j \in 1..width |-> IF j = k THEN 2 ELSE 1] :
                  k \in {shift_range, shift_range + 2}}

\* values of attn_shift_range: no kernel, the narrowest kernel, and the widest
ShiftRanges == {0, 1, MaxShift}

\* what the last call handed to the NTM (the slices probs and probs_state
\* and the gate): nothing before the first call
NoInputs == <<>>

\* a tensor of the recurrence, by what it is made of: the slices it
\* concatenates along its last axis, and the quantities it was computed from
Tensor(parts, deps) == [parts |-> parts, deps |-> deps]

\* tf.concat([x, y], 1)
concat(x, y) == Tensor(x.parts \o y.parts, x.deps \cup y.deps)

\* the input dynamic_rnn feeds at step t: cell_input[:, t] with
\* cell_input = tf.concat([emb_utter, emb_slots], -1)
rnn_input(t) == Tensor(<<"utter", "slots">>, {[kind |-> "input", time |-> t]})

\* the cell's zero state: an LSTMStateTuple computed from nothing
zero_cell_state == [c |-> Tensor(<<"c">>, {}), h |-> Tensor(<<"h">>, {})]

\* cell_input_fn(inputs, attention): the attention, then
\* inputs[:, num_utter_units:], the slices of the input after the utterance
cell_input_fn(inputs, attention) ==
    concat(attention, Tensor(Tail(inputs.parts), inputs.deps))

\* ChronoLayerNormBasicLSTMCell.call(inputs, state) as invoked in step t:
\* new_c and new_h are computed from the inputs, c and h; new_h is the output
lstm_cell_call(inputs, state, t) ==
    LET deps == inputs.deps \cup state.c.deps \cup state.h.deps
                    \cup {[kind |-> "cell", time |-> t]}
    IN  [output |-> Tensor(<<"h">>, deps),
         state |-> [c |-> Tensor(<<"c">>, deps), h |-> Tensor(<<"h">>, deps)]]

\* what _compute_time_attention computes its three results from: the query
\* cell_output, the previous attention state and the memory
attention_deps(query, attention_state_deps) ==
    query.deps \cup attention_state_deps \cup {[kind |-> "memory", time |-> 0]}

\* AttentionWrapper.zero_state, by what its tensors are made of
zero_wrapper_state ==
    [ query |-> Tensor(<<>>, {}),
      alignment_deps |-> {},
      attention_state_deps |-> {},
      attention |-> Tensor(<<"context">>, {}),
      cell_inputs |-> Tensor(<<>>, {}),
      cell_calls |-> 0,
      cell_state |-> zero_cell_state,
      output |-> Tensor(<<>>, {}) ]

\* mutant of time_attention_wrapper_call: the order of AttentionWrapper.call,
\* which calls the cell on the previous attention first and computes the
\* attention from the cell's output
time_attention_wrapper_call_cell_first(s, time) ==
    LET inputs      == rnn_input(time)
        cell_inputs == cell_input_fn(inputs, s.attention)
        cell        == lstm_cell_call(cell_inputs, s.cell_state, time)
        deps        == attention_deps(cell.output, s.attention_state_deps)
    IN  [query |-> cell.output,
         alignment_deps |-> deps,
         attention_state_deps |-> deps,
         attention |-> Tensor(<<"context">>, deps),
         cell_inputs |-> cell_inputs,
         cell_calls |-> s.cell_calls + 1,
         cell_state |-> cell.state,
         output |-> cell.output]

\* TimeAttentionWrapper.call(inputs, state), by the order of its steps: the
\* query out_for_attn, the attention, the cell's input, the cell, and what
\* it returns with output_attention = False (attention_layer is None, so the
\* attention is the context)
time_attention_wrapper_call(s, time) ==
    LET inputs       == rnn_input(time)
        out_for_attn == concat(s.cell_state.h, inputs)
        deps         == attention_deps(out_for_attn, s.attention_state_deps)
        attention    == Tensor(<<"context">>, deps)
        cell_inputs  == cell_input_fn(inputs, attention)
        cell         == lstm_cell_call(cell_inputs, s.cell_state, time)
    IN  [query |-> out_for_attn,
         alignment_deps |-> deps,
         attention_state_deps |-> deps,
         attention |-> attention,
         cell_inputs |-> cell_inputs,
         cell_calls |-> s.cell_calls + 1,
         cell_state |-> cell.state,
         output |-> cell.output]

\* AttentionWrapper.zero_state for a memory of MaxTime positions, wrapped by
\* TimeAttentionWrapper(attn_shift_range = shift_range)
InitAttn ==
    /\ policy = untrained_policy("standard")
    /\ disk = AbsentPath
    /\ call = NoCall
    /\ loss = IdleLoss
    /\ remote = IdleRemote
    /\ fit = IdleFit
    /\ cont = IdleCont
    /\ hp = IdleHp
    /\ batch = IdleBatch
    /\ \E shift_range \in ShiftRanges :
          attn = [ time |-> 0,
                   shift_range |-> shift_range,
                   attention_state |-> [i \in 1..MaxTime |-> 0],
                   alignments |-> [i \in 1..MaxTime |-> Frac(0, 1)],
                   alignment_history |-> [i \in 1..MaxTime |-> <<>>],
                   inputs |-> NoInputs,
                   wrapper |-> zero_wrapper_state ]

\* TimeAttentionWrapper.call(inputs, state) at step state.time, for one
\* attention mechanism; what the dense layers yield for the cell's output
\* (gate, shift weights, gamma) and the mechanism's raw scores are inputs
AttnCall(raw, g, s_w, gamma) ==
    /\ attn.time < MaxTime
    /\ \E out \in {compute_time_attention(raw, attn.attention_state,
                                           attn.time, g, s_w, gamma)} :
          attn' = [attn EXCEPT
                     !.time = attn.time + 1,
                     !.attention_state = out.next_attention_state,
                     !.alignments = out.alignments,
                     !.alignment_history[attn.time + 1] = out.alignments,
                     !.inputs = [probs |-> out.probs,
                                 probs_state |-> out.probs_state,
                                 g |-> g],
                     !.wrapper =
                         time_attention_wrapper_call(attn.wrapper, attn.time)]
    /\ UNCHANGED <<policy, disk, call, hp, batch, fit, cont, loss, remote>>

NextAttn ==
    /\ attn.time < MaxTime
    /\ \E raw \in [1..MaxTime -> ScoreVals], g \in GateVals,
          s_w \in ShiftWeights(attn.shift_range), gamma \in GammaVals :
           AttnCall(raw, g, s_w, gamma)

SpecAttn == InitAttn /\ [][NextAttn]_vars

\* C5: the alignment emitted at step t is zero at every memory position
\* > t, with and without a shift kernel, and the alignment written to the
\* alignment history at index t is that vector.
C5_AlignmentZeroAfterStep ==
    attn.time > 0 =>
        /\ Len(attn.alignments) = MaxTime
        /\ \A pos \in 0..(MaxTime - 1) :
              pos > attn.time - 1 => attn.alignments[pos + 1].num = 0
        /\ attn.alignment_history[attn.time] = attn.alignments

\* C5 witness: with a shift kernel, a step t >= 1 that is not the last one
\* has emitted an alignment with weight on two positions <= t.
C5_Witness ==
    /\ attn.shift_range > 0
    /\ attn.time >= 2
    /\ attn.time < MaxTime
    /\ attn.alignments[1].num > 0
    /\ attn.alignments[attn.time].num > 0
    /\ attn.alignment_history[attn.time] = attn.alignments

----------------------------------------------------------------------------
(* Sequences of train calls on training sets of different length: SpecTime *)

\* longest dialogue of a training set
MaxDialogueLen == 4

\* training sets: one or two dialogues, by their true lengths
TimeLengths ==
    UNION {[1..k -> 1..MaxDialogueLen] : k \in 1..2}

\* keyword arguments passed to train in SpecTime
TimeKwargs ==
    { NoKwargs, [num_neg |-> 1],
      [attn_shift_range |-> 0], [attn_shift_range |-> 2] }

NextTime ==
    \E kwargs \in TimeKwargs, lengths \in TimeLengths :
        Train(kwargs, 2, lengths, <<1, -1>>)

SpecTime == Init /\ [][NextTime]_vars

\* C11 (as claimed): after every train call characteristic_time is the mean
\* true length of that call's dialogues, and attn_shift_range, when the
\* caller's configuration leaves it unset, is floor(characteristic_time / 2)
\* of that same call, whatever train calls came before on the instance.
C11_TimesFollowEachCall ==
    call.op = "train" =>
        /\ policy.characteristic_time
               = Frac(SumSeq(call.lengths), Len(call.lengths))
        /\ policy.config_attn_shift_range = UnsetShiftRange
              => 2 * policy.attn_shift_range * Len(call.lengths)
                     <= SumSeq(call.lengths)
                 /\ SumSeq(call.lengths)
                     < 2 * (policy.attn_shift_range + 1) * Len(call.lengths)

----------------------------------------------------------------------------
(* EmbeddingPolicy.continue_training, epoch by epoch: SpecContinue *)

\* largest number of trackers passed to continue_training
MaxTrackers == 3
\* largest batch_size passed to continue_training
MaxBatchSize == 3

\* what np.random.choice(range(population), replace=False, size=size) can
\* return: the arrangements of `size' different values
choice_without_replacement(population, size) ==
    {s \in [1..size -> 0..(population - 1)] :
        \A i, j \in 1..size : i # j => s[i] # s[j]}

\* np.random.choice(..., replace=False, size=size) raises ValueError for a
\* sample larger than the population and for a negative size
choice_raises(population, size) == size > population \/ size < 0

\* mutant of sample_size: the sample is not capped by the prior history
sample_size_uncapped(batch_size, num_trackers) == batch_size - 1

\* size=min(num_samples, num_prev_examples) with num_samples =
\* batch_size - 1 and num_prev_examples = len(training_trackers) - 1
sample_size(batch_size, num_trackers) ==
    Min(batch_size - 1, num_trackers - 1)

\* [training_trackers[i] for i in sampled_idx] + training_trackers[-1:],
\* trackers named by their index in training_trackers
epoch_trackers(sampled_idx, num_trackers) ==
    sampled_idx \o <<num_trackers - 1>>

\* mutant of continue_epoch: the epoch builds a fresh graph, as train does
continue_epoch_rebuilds(p, variables) ==
    [train_build_inputs(p) EXCEPT !.session.variables = variables]

\* the instance after one epoch's self.session.run(self.train_op, ...):
\* the gradient step mutates the session's variables in place
continue_epoch(p, variables) ==
    [p EXCEPT !.session.variables = variables]

\* an instance continue_training can be called on: one that train has
\* fitted, or the one load returns for what that instance persisted
trained_policy(kwargs, variables) ==
    train(untrained_policy("standard"), kwargs, 2, FixedLengths, variables)

InitContinue ==
    /\ disk = AbsentPath
    /\ call = NoCall
    /\ loss = IdleLoss
    /\ remote = IdleRemote
    /\ hp = IdleHp
    /\ batch = IdleBatch
    /\ attn = IdleAttn
    /\ fit = IdleFit
    /\ \E kwargs \in {NoKwargs, [num_neg |-> 1]},
          variables \in VariableValues(2), restored \in BOOLEAN :
          policy = IF restored
                   THEN load(persist_files(trained_policy(kwargs, variables),
                                           AbsentPath))
                   ELSE trained_policy(kwargs, variables)
    /\ \E n \in 2..MaxTrackers, b \in 1..MaxBatchSize, e \in 0..MaxEpochs :
          cont = [ pc |-> "loop", num_trackers |-> n, batch_size |-> b,
                   epochs |-> e, ep |-> 0, steps |-> 0,
                   trackers |-> <<>>, ret |-> "None" ]

\* one pass of `for _ in range(epochs)': sample (np.random.choice raises
\* ValueError for a sample it cannot draw), featurize, build the batch, run
\* train_op once (session.run raises for a train_op of None)
ContinueEpoch(sampled_idx, variables) ==
    LET size == sample_size(cont.batch_size, cont.num_trackers)
        trackers == epoch_trackers(sampled_idx, cont.num_trackers)
    IN
    /\ cont.pc = "loop"
    /\ cont.ep < cont.epochs
    /\ IF choice_raises(cont.num_trackers - 1, size)
       THEN /\ sampled_idx = <<>>
            /\ policy' = policy
            /\ cont' = [cont EXCEPT !.pc = "raised", !.ret = "ValueError"]
       ELSE /\ sampled_idx
                   \in choice_without_replacement(cont.num_trackers - 1, size)
            /\ IF continue_training_ret(policy) = "returned"
               THEN /\ policy' = continue_epoch(policy, variables)
                    /\ cont' = [cont EXCEPT !.ep = cont.ep + 1,
                                            !.steps = cont.steps + 1,
                                            !.trackers = trackers]
               ELSE /\ policy' = policy
                    /\ cont' = [cont EXCEPT
                                  !.pc = "raised",
                                  !.ret = continue_training_ret(policy),
                                  !.trackers = trackers]
    /\ UNCHANGED <<disk, call, hp, batch, attn, fit, loss, remote>>

\* the loop is over: continue_training returns None
ContinueReturn ==
    /\ cont.pc = "loop"
    /\ cont.ep = cont.epochs
    /\ cont' = [cont EXCEPT !.pc = "returned", !.ret = "returned"]
    /\ UNCHANGED <<policy, disk, call, hp, batch, attn, fit, loss, remote>>

NextContinue ==
    \/ \E sampled_idx \in UNION {[1..k -> 0..(MaxTrackers - 1)] :
                                    k \in 0..MaxTrackers},
          variables \in VariableValues(2) :
          ContinueEpoch(sampled_idx, variables)
    \/ ContinueReturn

SpecContinue == InitContinue /\ [][NextContinue]_vars

\* the number of times tracker t is in the epoch's batch
TimesInBatch(t) ==
    Cardinality({i \in DOMAIN cont.trackers : cont.trackers[i] = t})

\* C12: for n >= 2 trackers and batch size B >= 1, an epoch's batch holds
\* min(B - 1, n - 1) pairwise distinct trackers out of the first n - 1, then
\* the most recent tracker exactly once (at most B trackers in all), and the
\* sampling never raises, also when n - 1 < B - 1.
C12_BatchIsDistinctPriorsPlusLast ==
    /\ cont.ret # "ValueError"
    /\ cont.trackers # <<>> =>
          /\ Len(cont.trackers)
                 = Min(cont.batch_size - 1, cont.num_trackers - 1) + 1
          /\ Len(cont.trackers) <= cont.batch_size
          /\ cont.trackers[Len(cont.trackers)] = cont.num_trackers - 1
          /\ \A t \in 0..(cont.num_trackers - 1) : TimesInBatch(t) <= 1
          /\ TimesInBatch(cont.num_trackers - 1) = 1

\* C12 witness: a call with less prior history than batch_size - 1 has run
\* an epoch and returned.
C12_Witness ==
    /\ cont.pc = "returned"
    /\ cont.ep > 0
    /\ cont.num_trackers - 1 < cont.batch_size - 1
    /\ Len(cont.trackers) = cont.num_trackers

\* C13: every epoch of continue_training applies one gradient step and
\* changes nothing of the instance but the session's variables (same graph,
\* session, handles, encoded actions, configuration); on an instance fitted
\* by train the call returns after exactly `epochs' steps.
C13_OneStepPerEpochInPlace ==
    [][/\ [policy' EXCEPT !.session.variables = <<>>]
              = [policy EXCEPT !.session.variables = <<>>]
       /\ cont'.steps - cont.steps = cont'.ep - cont.ep
       /\ cont'.ep - cont.ep \in {0, 1}
       /\ (policy.train_op # NoHandle /\ cont'.pc # "loop")
             => cont'.pc = "returned" /\ cont'.steps = cont.epochs]_vars

\* C13 witness: a call on a fitted instance has returned after MaxEpochs
\* gradient steps.
C13_Witness ==
    /\ cont.pc = "returned"
    /\ cont.steps = MaxEpochs
    /\ policy.train_op # NoHandle
    /\ policy.session # NoSession

----------------------------------------------------------------------------
(* EmbeddingPolicy._train_tf, batch by batch: SpecFit *)

\* largest number of training dialogues, len(X)
MaxDialogues == 3
\* largest `epochs' of a full training
MaxFitEpochs == 3

\* _load_visual_params(config), for the config's epochs: a cadence below 1
\* is replaced by self.epochs
load_visual_params(config) ==
    [ calc_acc_ones_in_epochs |->
          IF config.calc_acc_ones_in_epochs < 1
          THEN config.epochs ELSE config.calc_acc_ones_in_epochs,
      calc_acc_on_num_examples |-> config.calc_acc_on_num_examples ]

\* mutant of batches_per_epoch: the remainder batch is dropped
batches_per_epoch_floor(num_dialogues, batch_size) ==
    num_dialogues \div batch_size

\* len(X) // self.batch_size + int(len(X) % self.batch_size > 0)
batches_per_epoch(num_dialogues, batch_size) ==
    (num_dialogues \div batch_size)
        + (IF num_dialogues % batch_size > 0 THEN 1 ELSE 0)

\* what np.random.permutation(n) can return
permutations(n) ==
    {s \in [1..n -> 0..(n - 1)] : \A i, j \in 1..n : i # j => s[i] # s[j]}

\* ids[start_idx:end_idx]: a slice stops at the end of the array
slice(ids, start_idx, end_idx) ==
    SubSeq(ids, start_idx + 1, Min(end_idx, Len(ids)))

\* mutant of accuracy_due: the final epoch is not measured for its own sake
accuracy_due_without_last(ep, cadence, epochs) ==
    (ep + 1) = 1 \/ (ep + 1) % cadence = 0

\* (ep + 1) == 1 or (ep + 1) % self.calc_acc_ones_in_epochs == 0
\*   or (ep + 1) == self.epochs
accuracy_due(ep, cadence, epochs) ==
    \/ (ep + 1) = 1
    \/ (ep + 1) % cadence = 0
    \/ (ep + 1) = epochs

\* configurations of a full training: epochs, batch_size, the configured
\* accuracy cadence (0: below 1) and the number of examples accuracy is
\* measured on (0: never)
FitConfigs ==
    [ epochs : 0..MaxFitEpochs,
      batch_size : 1..MaxBatchSize,
      calc_acc_ones_in_epochs : 0..(MaxFitEpochs + 1),
      calc_acc_on_num_examples : {0, 2} ]

\* _train_tf is entered: the instance holds the attributes _load_params
\* stored for `config'
InitFit ==
    /\ policy = untrained_policy("standard")
    /\ disk = AbsentPath
    /\ call = NoCall
    /\ loss = IdleLoss
    /\ remote = IdleRemote
    /\ hp = IdleHp
    /\ batch = IdleBatch
    /\ attn = IdleAttn
    /\ cont = IdleCont
    /\ \E config \in FitConfigs, n \in 1..MaxDialogues :
          fit = [ pc |-> "call",
                  config |-> config,
                  num_dialogues |-> n,
                  batch_size |-> config.batch_size,
                  epochs |-> config.epochs,
                  calc_acc_ones_in_epochs |->
                      load_visual_params(config).calc_acc_ones_in_epochs,
                  calc_acc_on_num_examples |->
                      load_visual_params(config).calc_acc_on_num_examples,
                  batches_per_epoch |-> 0,
                  inits |-> 0, steps |-> 0, ep |-> 0, i |-> 0,
                  ids |-> <<>>, batches |-> <<>>, acc_epochs |-> {} ]

\* self.session.run(tf.global_variables_initializer()); batches_per_epoch
FitStart ==
    /\ fit.pc = "call"
    /\ fit' = [fit EXCEPT
                 !.pc = "epoch",
                 !.inits = fit.inits + 1,
                 !.batches_per_epoch =
                     batches_per_epoch(fit.num_dialogues, fit.batch_size)]
    /\ UNCHANGED <<policy, disk, call, hp, batch, attn, cont, loss, remote>>

\* for ep in pbar: ids = np.random.permutation(X.shape[0])
FitShuffle(ids) ==
    /\ fit.pc = "epoch"
    /\ fit.ep < fit.epochs
    /\ ids \in permutations(fit.num_dialogues)
    /\ fit' = [fit EXCEPT !.pc = "batch", !.ids = ids, !.i = 0,
                          !.batches = <<>>]
    /\ UNCHANGED <<policy, disk, call, hp, batch, attn, cont, loss, remote>>

\* one pass of `for i in range(batches_per_epoch)': the slice of ids, the
\* batch with its negatives, one session.run of train_op
FitBatch ==
    /\ fit.pc = "batch"
    /\ fit.i < fit.batches_per_epoch
    /\ fit' = [fit EXCEPT
                 !.batches = Append(fit.batches,
                                    slice(fit.ids, fit.i * fit.batch_size,
                                          (fit.i + 1) * fit.batch_size)),
                 !.steps = fit.steps + 1,
                 !.i = fit.i + 1]
    /\ UNCHANGED <<policy, disk, call, hp, batch, attn, cont, loss, remote>>

\* the end of an epoch: accuracy is measured when it is due
FitEpochEnd ==
    /\ fit.pc = "batch"
    /\ fit.i = fit.batches_per_epoch
    /\ fit' = [fit EXCEPT
                 !.pc = "epoch",
                 !.ep = fit.ep + 1,
                 !.acc_epochs =
                     IF /\ fit.calc_acc_on_num_examples # 0
                        /\ accuracy_due(fit.ep, fit.calc_acc_ones_in_epochs,
                                        fit.epochs)
                     THEN fit.acc_epochs \cup {fit.ep + 1}
                     ELSE fit.acc_epochs]
    /\ UNCHANGED <<policy, disk, call, hp, batch, attn, cont, loss, remote>>

\* the epochs are over: _train_tf returns
FitReturn ==
    /\ fit.pc = "epoch"
    /\ fit.ep = fit.epochs
    /\ fit' = [fit EXCEPT !.pc = "returned"]
    /\ UNCHANGED <<policy, disk, call, hp, batch, attn, cont, loss, remote>>

NextFit ==
    \/ FitStart
    \/ \E ids \in [1..fit.num_dialogues -> 0..(fit.num_dialogues - 1)] :
          FitShuffle(ids)
    \/ FitBatch
    \/ FitEpochEnd
    \/ FitReturn

SpecFit == InitFit /\ [][NextFit]_vars

\* ceil(n / b) for b >= 1
CeilDiv(n, b) == (n + b - 1) \div b

\* the number of batches of the epoch that hold dialogue d
BatchesHolding(d) ==
    Cardinality({k \in DOMAIN fit.batches :
                    \E j \in DOMAIN fit.batches[k] : fit.batches[k][j] = d})

\* C14: parameters are initialised once; every gradient step belongs to one
\* batch, in sequence; a finished epoch has used ceil(n / B) batches, all
\* but possibly the last of exactly B dialogues, with each dialogue in
\* exactly one batch; the call applies E * ceil(n / B) gradient steps.
C14_EveryDialogueOncePerEpoch ==
    LET n == fit.num_dialogues
        b == fit.batch_size
    IN
    /\ fit.pc # "call" => fit.inits = 1
    /\ fit.pc = "batch" => fit.steps = fit.ep * CeilDiv(n, b) + fit.i
    /\ (fit.pc \in {"epoch", "returned"} /\ fit.ep > 0) =>
          /\ fit.steps = fit.ep * CeilDiv(n, b)
          /\ Len(fit.batches) = CeilDiv(n, b)
          /\ \A k \in 1..(Len(fit.batches) - 1) : Len(fit.batches[k]) = b
          /\ Len(fit.batches[Len(fit.batches)]) \in 1..b
          /\ \A d \in 0..(n - 1) : BatchesHolding(d) = 1
    /\ fit.pc = "returned" => fit.steps = fit.epochs * CeilDiv(n, b)

\* C14 witness: a training of more than one epoch has returned, with a last
\* batch smaller than the batches before it.
C14_Witness ==
    /\ fit.pc = "returned"
    /\ fit.epochs > 1
    /\ Len(fit.batches) > 1
    /\ Len(fit.batches[Len(fit.batches)]) < fit.batch_size

\* the cadence the claim gives for a configured cadence
ClaimedCadence ==
    IF fit.config.calc_acc_ones_in_epochs < 1
    THEN fit.config.epochs ELSE fit.config.calc_acc_ones_in_epochs

\* C15: accuracy is measured at the end of epoch e (1-based) exactly when
\* calc_acc_on_num_examples # 0 and e = 1, or e is a multiple of the
\* cadence, or e = E; a configured cadence below 1 counts as E.
C15_AccuracyCadence ==
    \A e \in 1..fit.ep :
        (e \in fit.acc_epochs)
            <=> /\ fit.config.calc_acc_on_num_examples # 0
                /\ \/ e = 1
                   \/ e % ClaimedCadence = 0
                   \/ e = fit.config.epochs

\* C15 witness: a training with accuracy enabled has returned with an
\* epoch that was measured only because it is the last, and one that was
\* not measured.
C15_Witness ==
    /\ fit.pc = "returned"
    /\ fit.calc_acc_on_num_examples # 0
    /\ fit.epochs \in fit.acc_epochs
    /\ fit.epochs % fit.calc_acc_ones_in_epochs # 0
    /\ \E e \in 1..fit.epochs : e \notin fit.acc_epochs

----------------------------------------------------------------------------
(* Claims about errors and results of the life cycle (Spec) *)

\* C16: a train call whose similarity kind is neither cosine nor inner
\* raises ValueError with the session, its parameters and the train
\* operation left as they were (nothing initialised, no gradient step), and
\* no predict call on a session returns scores under such a kind.
C16_UnknownSimilarityIsFatal ==
    [][/\ (/\ call'.op = "train"
           /\ policy'.similarity_type \notin {"cosine", "inner"})
             => /\ call'.ret = "ValueError"
                /\ policy'.session = policy.session
                /\ policy'.train_op = policy.train_op
                /\ policy'.sim_op = policy.sim_op
       /\ (/\ call'.op = "predict"
           /\ call'.ret = "returned"
           /\ policy.session # NoSession)
             => policy.similarity_type \in {"cosine", "inner"}]_vars

\* C16 witness: predict was called on an instance that holds a session and
\* whose last train call raised for its similarity kind.
C16_Witness ==
    /\ call.op = "predict"
    /\ policy.session # NoSession
    /\ policy.similarity_type = "euclidean"


\* the directory every path of LoadPaths names, resolved
ResolvedModelDir == <<"/", "srv", "models">>

\* C17: load on a path that does not exist raises an exception whose
\* message holds the resolved absolute path; the caller gets no instance
\* and nothing is created under the path.
C17_MissingPathRaisesWithAbsPath ==
    [][(call'.op = "load" /\ ~disk.exists)
          => /\ call'.ret = "Exception"
             /\ call'.message.path = ResolvedModelDir
             /\ policy' = policy
             /\ disk' = disk]_vars

\* C17 witness: load has raised for a trained instance's caller, with the
\* path absent.
C17_Witness ==
    /\ call.op = "load"
    /\ call.ret = "Exception"
    /\ call.message # NoMessage
    /\ policy.session # NoSession
    /\ ~disk.exists

\* C18: load on an existing path without checkpoint metadata returns an
\* untrained instance (no session, graph, handles or encoded actions) with
\* the featurizer stored under the path and the default configuration.
C18_NoCheckpointGivesUntrained ==
    [][(call'.op = "load" /\ disk.exists /\ ~disk.meta.present)
          => /\ call'.ret = "returned"
             /\ policy'.featurizer = disk.featurizer
             /\ policy'.session = NoSession
             /\ policy'.graph = NoGraph
             /\ policy'.encoded_all_actions = <<>>
             /\ \A h \in {policy'.a_in, policy'.b_in, policy'.c_in,
                          policy'.b_prev_in, policy'.sim_op,
                          policy'.train_op, policy'.is_training} :
                   h = NoHandle
             /\ policy'.alignment_history = <<>>
             /\ policy'.similarity_type = "cosine"
             /\ policy'.num_neg = DefaultNumNeg
             /\ policy'.use_attention
             /\ policy'.attn_shift_range = UnsetShiftRange
             /\ policy'.characteristic_time = NoTime]_vars

\* C18 witness: load has returned an instance without a session that
\* carries the featurizer stored under a path without checkpoint.
C18_Witness ==
    /\ call.op = "load"
    /\ call.ret = "returned"
    /\ policy.session = NoSession
    /\ policy.featurizer = "stored"
    /\ disk.exists
    /\ ~disk.meta.present


\* C19: on a trained instance, for the domain it was trained on, predict
\* returns num_actions scores made from the similarity row: under cosine
\* each is max(0, similarity), so none is negative; under inner they are
\* positive, in the ratio of the similarities' exponentials, and sum to 1.
C19_TrainedPredictScores ==
    (/\ call.op = "predict"
     /\ call.ret = "returned"
     /\ policy.session # NoSession
     /\ call.n = Len(policy.encoded_all_actions))
        => LET sim == policy.session.variables
               result == call.value
           IN  /\ Len(result) = call.n
               /\ policy.similarity_type = "cosine" =>
                     \A i \in 1..call.n :
                         /\ result[i].den = 1
                         /\ result[i].num = Max(0, sim[i])
                         /\ result[i].num >= 0
               /\ policy.similarity_type = "inner" =>
                     /\ \A i \in 1..call.n :
                           result[i].num > 0 /\ result[i].den > 0
                     /\ \A i, j \in 1..call.n :
                           /\ result[i].den = result[j].den
                           /\ result[i].num * exp_scaled(sim[j])
                                  = result[j].num * exp_scaled(sim[i])
                     /\ SumSeq([i \in 1..call.n |-> result[i].num])
                            = result[1].den

\* C19 witness: predict has returned two different scores under inner.
C19_Witness ==
    /\ call.op = "predict"
    /\ call.ret = "returned"
    /\ policy.session # NoSession
    /\ policy.similarity_type = "inner"
    /\ call.n = Len(policy.encoded_all_actions)
    /\ call.value[1] # call.value[2]


\* the handles an instance holds, by the collection persist stores each in
HandlesByCollection(p) ==
    [c \in CollectionNames |->
        CASE c = "intent_placeholder"   -> <<p.a_in>>
          [] c = "action_placeholder"   -> <<p.b_in>>
          [] c = "slots_placeholder"    -> <<p.c_in>>
          [] c = "prev_act_placeholder" -> <<p.b_prev_in>>
          [] c = "similarity_op"        -> <<p.sim_op>>
          [] OTHER                      -> p.alignment_history]

\* C20: after every persist of a trained instance, however many came
\* before, each named collection of its graph holds the instance's current
\* handle and nothing else (one handle per input, one for the similarity,
\* one per alignment tensor); a load that follows binds the tensors of
\* those names in the graph it imports.
C20_CollectionsHoldCurrentHandles ==
    [][/\ (/\ call'.op = "persist"
           /\ call'.ret = "returned"
           /\ policy.session # NoSession)
             => /\ policy'.graph.collections = HandlesByCollection(policy')
                /\ HandlesByCollection(policy') = HandlesByCollection(policy)
                /\ \A c \in CollectionNames \ {"alignment_history_0"} :
                      Len(policy'.graph.collections[c]) = 1
       /\ (/\ call.op = "persist"
           /\ call.ret = "returned"
           /\ policy.session # NoSession
           /\ call'.op = "load")
             => \A c \in CollectionNames :
                   HandlesByCollection(policy')[c]
                       = [i \in DOMAIN HandlesByCollection(policy)[c] |->
                             Handle(policy'.graph.id,
                                    HandlesByCollection(policy)[c][i].name)]
      ]_vars

\* C20 witness: persist has returned on an instance restored by load with
\* attention, whose graph came with the collections already filled.
C20_Witness ==
    /\ call.op = "persist"
    /\ call.ret = "returned"
    /\ policy.session # NoSession
    /\ policy.train_op = NoHandle
    /\ Len(policy.graph.collections["alignment_history_0"]) = 1
    /\ disk.meta.present

----------------------------------------------------------------------------
(* Shared vocabulary and the tower architectures (SpecParams) *)

\* C21: when the featurizer shares its vocabulary between the state and the
\* action side, after construction and after every _load_params with
\* overrides that returns, tower b's layer count and size list are tower
\* a's layer count and size list, whatever was configured for tower b.
C21_SharedTowersAgree ==
    (hp.share_embedding /\ hp.ret = "returned") =>
        /\ hp.num_hidden_layers_b = hp.num_hidden_layers_a
        /\ hp.hidden_layer_size_b = hp.hidden_layer_size_a

\* C21 witness: with a shared vocabulary, a load with overrides has
\* returned for two towers configured with the same count and different
\* size lists, and tower b holds tower a's list.
C21_Witness ==
    /\ hp.share_embedding
    /\ hp.pc = "loaded"
    /\ hp.ret = "returned"
    /\ hp.config.num_hidden_layers_a = 2
    /\ hp.config.hidden_layer_size_a = <<1, 2>>
    /\ hp.config.num_hidden_layers_b = 2
    /\ hp.config.hidden_layer_size_b = <<2, 1, 1>>
    /\ hp.hidden_layer_size_b = <<1, 2>>

----------------------------------------------------------------------------
(* The NTM step and the order of the wrapped recurrence (SpecAttn) *)

\* a vector of raw scores as rationals, to compare it with an alignment
AsFractions(x) == [i \in 1..Len(x) |-> Frac(x[i], 1)]

\* C22 (as claimed): after every recurrence step, the probability state
\* carried forward to the next step is the same vector as the alignment the
\* step emitted.
C22_CarriedStateIsAlignment ==
    attn.time > 0 => AsFractions(attn.attention_state) = attn.alignments

\* a / b < c / d for rationals with positive denominators
LessFrac(a, b) == a.num * b.den < b.num * a.den

\* C22 (amended): the probability state carried forward is the gated blend
\* of the raw scores with the previous state, taken before softmax, shift
\* and sharpening and padded with zeros; the emitted alignment is computed
\* from it: without a shift kernel, equal entries of the state's prefix give
\* equal entries of the alignment and a larger entry a larger one.
C22_CarriedStateIsBlend ==
    attn.time > 0 =>
        LET t == attn.time - 1 IN
        /\ attn.attention_state =
               interpolate(attn.inputs.g, attn.inputs.probs,
                           attn.inputs.probs_state)
                   \o zeros_from(MaxTime, t + 1)
        /\ attn.shift_range = 0 =>
              \A i, j \in 1..(t + 1) :
                  /\ attn.attention_state[i] = attn.attention_state[j]
                        => attn.alignments[i] = attn.alignments[j]
                  /\ attn.attention_state[i] < attn.attention_state[j]
                        => LessFrac(attn.alignments[i], attn.alignments[j])

\* C22 witness: a step t >= 1 has carried a state with both score values
\* in its prefix, which differs from the alignment it emitted.
C22_Witness ==
    /\ attn.time >= 2
    /\ attn.shift_range = 0
    /\ attn.attention_state[1] = 1
    /\ attn.attention_state[2] = 0
    /\ attn.inputs.g = 0
    /\ AsFractions(attn.attention_state) # attn.alignments


\* a / b + c / d in lowest terms
AddFrac(a, b) == Frac(a.num * b.den + b.num * a.den, a.den * b.den)

RECURSIVE SumFracs(_)
SumFracs(x) == IF x = <<>> THEN Frac(0, 1) ELSE AddFrac(x[1], SumFracs(Tail(x)))

\* C23: at every step t the entries of the emitted alignment at positions
\* 0..t are non-negative and sum to 1 after sharpening, without a shift
\* kernel and with a kernel of width 2 * shift_range + 1, also when the
\* shift range is larger than the prefix length.
C23_PrefixSumsToOne ==
    attn.time > 0 =>
        LET prefix == SubSeq(attn.alignments, 1, attn.time) IN
        /\ \A i \in 1..Len(prefix) : prefix[i].num >= 0 /\ prefix[i].den > 0
        /\ SumFracs(prefix) = Frac(1, 1)

\* C23 witness: a kernel whose shift range is larger than the prefix has
\* been applied to a prefix of two positions, which hold different weights.
C23_Witness ==
    /\ attn.time = 2
    /\ attn.shift_range > attn.time
    /\ attn.alignments[1].num > 0
    /\ attn.alignments[2].num > 0
    /\ attn.alignments[1] # attn.alignments[2]


\* C24: in the interpolation of step t the raw score of the newest
\* position t passes through unmodified and each earlier position p < t
\* becomes g * raw[p] + (1 - g) * carried_state[p]; the carried state used
\* has exactly t entries, so at t = 0 nothing is blended.
C24_NewestScoreUnblended ==
    attn.time > 0 =>
        LET t     == attn.time - 1
            raw   == attn.inputs.probs
            state == attn.inputs.probs_state
            g     == attn.inputs.g
        IN  /\ Len(raw) = t + 1
            /\ Len(state) = t
            /\ attn.attention_state[t + 1] = raw[t + 1]
            /\ \A p \in 1..t :
                  attn.attention_state[p] = g * raw[p] + (1 - g) * state[p]
            /\ t = 0 => attn.attention_state[1] = raw[1]

\* C24 witness: at a step t >= 1 the gate was closed (g = 0), the newest
\* raw score 1 went through and an earlier raw score 1 was replaced by the
\* carried 0.
C24_Witness ==
    /\ attn.time >= 2
    /\ attn.inputs.g = 0
    /\ attn.inputs.probs[attn.time] = 1
    /\ attn.attention_state[attn.time] = 1
    /\ attn.inputs.probs[1] = 1
    /\ attn.inputs.probs_state[1] = 0
    /\ attn.attention_state[1] = 0


\* the quantities of the recurrence
Input(t) == [kind |-> "input", time |-> t]
CellOutput(t) == [kind |-> "cell", time |-> t]

\* C25: in each step t of the attention-wrapped recurrence the attention is
\* computed first, from the previous step's cell output h and the current
\* input; the cell is then invoked exactly once, on the attention followed
\* by the non-utterance slice of the raw input; the step counter grows by
\* exactly 1; and the alignment of step t never depends on the cell output
\* produced at step t.
C25_AttentionBeforeCell ==
    attn.time > 0 =>
        LET t == attn.time - 1
            w == attn.wrapper
        IN  /\ w.query.parts = <<"h", "utter", "slots">>
            /\ Input(t) \in w.query.deps
            /\ \A k \in 0..(t - 1) : CellOutput(k) \in w.query.deps
            /\ w.alignment_deps \cap {CellOutput(k) : k \in 0..MaxTime}
                   = {CellOutput(k) : k \in 0..(t - 1)}
            /\ w.attention.deps = w.alignment_deps
            /\ w.cell_inputs.parts = <<"context", "slots">>
            /\ w.attention.deps \subseteq w.cell_inputs.deps
            /\ CellOutput(t) \in w.output.deps
            /\ w.output = w.cell_state.h
            /\ w.cell_calls = attn.time
            /\ attn.alignment_history[attn.time] # <<>>
            /\ \A k \in (attn.time + 1)..MaxTime :
                  attn.alignment_history[k] = <<>>

\* C25 witness: the second step has run: its attention was computed from
\* the first step's cell output, and its own cell output came after.
C25_Witness ==
    /\ attn.time = 2
    /\ CellOutput(0) \in attn.wrapper.alignment_deps
    /\ CellOutput(1) \notin attn.wrapper.alignment_deps
    /\ CellOutput(1) \in attn.wrapper.cell_state.h.deps
    /\ attn.wrapper.cell_calls = 2

----------------------------------------------------------------------------
(* _tf_sim and _tf_loss for one dialogue of a batch: SpecLoss *)

\* the padded number of steps of the dialogue
MaxSteps == 2

\* embeddings (emb_dial of a step, emb_act of a candidate of a step); the
\* dense layers give padded steps embeddings like any other
EmbVectors == {<<-1>>, <<2>>}

\* numbers of candidate actions of a step: the correct one and num_neg wrong
\* ones
CandidateCounts == {2, 3}

\* tf.reduce_sum(x * y, -1)
inner(x, y) == SumSeq([d \in 1..Len(x) |-> x[d] * y[d]])

\* the Euclidean norm of a vector whose norm is a whole number
norm(x) == CHOOSE n \in 0..inner(x, x) : n * n = inner(x, x)

\* tf.nn.l2_normalize(x, -1), for a vector whose entries its norm divides
l2_normalize(x) == [d \in 1..Len(x) |-> x[d] \div norm(x)]

\* tf.reduce_max(x, -1)
reduce_max(x) ==
    CHOOSE m \in {x[i] : i \in 1..Len(x)} : \A i \in 1..Len(x) : x[i] <= m

\* tf.maximum(0., x)
maximum0(x) == IF x > 0 THEN x ELSE 0

\* the embedding the similarity is taken of: normalised for 'cosine'
normalised(similarity_type, x) ==
    IF similarity_type = "cosine" THEN l2_normalize(x) ELSE x

\* mutant of tf_sim: sim_act is not multiplied by the mask
tf_sim_act_unmasked(similarity_type, emb_dial, emb_act, mask) ==
    [ raised |-> similarity_type \notin {"cosine", "inner"},
      sim |-> [t \in 1..Len(emb_dial) |-> [k \in 1..Len(emb_act[t]) |->
                  inner(normalised(similarity_type, emb_dial[t]),
                        normalised(similarity_type, emb_act[t][k]))
                      * mask[t]]],
      sim_act |-> [t \in 1..Len(emb_act) |->
                      [k \in 1..(Len(emb_act[t]) - 1) |->
                          inner(normalised(similarity_type, emb_act[t][1]),
                                normalised(similarity_type,
                                           emb_act[t][k + 1]))]] ]

\* _tf_sim(emb_dial, emb_act, mask) for one dialogue: sim[t][k] and
\* sim_act[t][k], or that it raises ValueError
tf_sim(similarity_type, emb_dial, emb_act, mask) ==
    IF similarity_type \in {"cosine", "inner"}
    THEN [ raised |-> FALSE,
           sim |-> [t \in 1..Len(emb_dial) |-> [k \in 1..Len(emb_act[t]) |->
                       inner(normalised(similarity_type, emb_dial[t]),
                             normalised(similarity_type, emb_act[t][k]))
                           * mask[t]]],
           sim_act |-> [t \in 1..Len(emb_act) |->
                           [k \in 1..(Len(emb_act[t]) - 1) |->
                               inner(normalised(similarity_type,
                                                emb_act[t][1]),
                                     normalised(similarity_type,
                                                emb_act[t][k + 1]))
                                   * mask[t]]] ]
    ELSE [raised |-> TRUE, sim |-> <<>>, sim_act |-> <<>>]

\* _tf_loss(sim, sim_act, mask) for one dialogue, before the mean over the
\* batch and the regularization loss: the loss of each step and the
\* dialogue's loss as a rational
tf_loss(config, sim, sim_act, mask) ==
    LET margins(t) ==
            IF config.use_max_sim_neg
            THEN (maximum0(config.mu_pos - sim[t][1])
                    + maximum0(config.mu_neg + reduce_max(Tail(sim[t]))))
                 * mask[t]
            ELSE SumSeq([k \in 1..Len(sim[t]) |->
                            IF k = 1
                            THEN maximum0(config.mu_pos - sim[t][k])
                            ELSE maximum0(config.mu_neg + sim[t][k])])
                 * mask[t]
        loss_act(t) == maximum0(reduce_max(sim_act[t]))
        steps == [t \in 1..Len(sim) |->
                     margins(t) + loss_act(t) * config.C_emb]
    IN  [step_loss |-> steps, loss |-> Frac(SumSeq(steps), SumSeq(mask))]

\* configurations of the loss: both similarity types and both loss forms,
\* with margins and C_emb in whole units
LossConfigs ==
    [ similarity_type : {"cosine", "inner"}, use_max_sim_neg : BOOLEAN,
      mu_pos : {2}, mu_neg : {-1}, C_emb : {1} ]

\* mask = tf.sign(tf.reduce_max(a_in, -1) + 1) of a dialogue with
\* real_length valid steps, padded with -1 after them
mask_of(real_length) ==
    [t \in 1..MaxSteps |-> IF t <= real_length THEN 1 ELSE 0]

InitLoss ==
    /\ policy = untrained_policy("standard")
    /\ disk = AbsentPath
    /\ call = NoCall
    /\ hp = IdleHp
    /\ batch = IdleBatch
    /\ attn = IdleAttn
    /\ fit = IdleFit
    /\ cont = IdleCont
    /\ remote = IdleRemote
    /\ \E config \in LossConfigs :
          loss = [ pc |-> "graph", config |-> config, emb_dial |-> <<>>,
                   emb_act |-> <<>>, mask |-> <<>>, sim |-> <<>>,
                   sim_act |-> <<>>, step_loss |-> <<>>,
                   loss |-> Frac(0, 1) ]

\* sim, sim_act = self._tf_sim(emb_dial, emb_act, mask)
TfSim(emb_dial, emb_act, real_length) ==
    /\ loss.pc = "graph"
    /\ \E out \in {tf_sim(loss.config.similarity_type, emb_dial, emb_act,
                          mask_of(real_length))} :
          loss' = [loss EXCEPT !.pc = IF out.raised THEN "ValueError"
                                      ELSE "sim",
                               !.emb_dial = emb_dial,
                               !.emb_act = emb_act,
                               !.mask = mask_of(real_length),
                               !.sim = out.sim,
                               !.sim_act = out.sim_act]
    /\ UNCHANGED <<policy, disk, call, hp, batch, attn, fit, cont, remote>>

\* loss = self._tf_loss(sim, sim_act, mask)
TfLoss ==
    /\ loss.pc = "sim"
    /\ \E out \in {tf_loss(loss.config, loss.sim, loss.sim_act, loss.mask)} :
          loss' = [loss EXCEPT !.pc = "loss",
                               !.step_loss = out.step_loss,
                               !.loss = out.loss]
    /\ UNCHANGED <<policy, disk, call, hp, batch, attn, fit, cont, remote>>

NextLoss ==
    \/ /\ loss.pc = "graph"
       /\ \E count \in CandidateCounts, real_length \in 1..MaxSteps,
             emb_dial \in [1..MaxSteps -> EmbVectors] :
              \E emb_act \in [1..MaxSteps -> [1..count -> EmbVectors]] :
                  TfSim(emb_dial, emb_act, real_length)
    \/ TfLoss

SpecLoss == InitLoss /\ [][NextLoss]_vars

\* the similarity of two embeddings under the configured similarity type
Similarity(x, y) ==
    IF loss.config.similarity_type = "cosine"
    THEN inner(l2_normalize(x), l2_normalize(y))
    ELSE inner(x, y)

\* the loss of a valid step t as the two loss forms define it, from the
\* embeddings of the step
ValidStepLoss(t) ==
    LET sims == [k \in 1..Len(loss.emb_act[t]) |->
                    Similarity(loss.emb_dial[t], loss.emb_act[t][k])]
        acts == [k \in 2..Len(loss.emb_act[t]) |->
                    Similarity(loss.emb_act[t][1], loss.emb_act[t][k])]
        worst(f, dom) == CHOOSE m \in {f[k] : k \in dom} :
                             \A k \in dom : f[k] <= m
        negs == IF loss.config.use_max_sim_neg
                THEN maximum0(loss.config.mu_neg
                                + worst(sims, 2..Len(sims)))
                ELSE SumSeq([k \in 1..(Len(sims) - 1) |->
                                maximum0(loss.config.mu_neg + sims[k + 1])])
    IN  maximum0(loss.config.mu_pos - sims[1]) + negs
            + loss.config.C_emb * maximum0(worst(acts, 2..Len(sims)))

\* C26: in both loss forms a padded step (mask 0) contributes exactly zero
\* to the dialogue's loss, the C_emb penalty included, and the sum over the
\* steps is divided by the number of valid steps of the dialogue.
C26_PaddedStepsContributeZero ==
    loss.pc = "loss" =>
        LET valid == {t \in 1..MaxSteps : loss.mask[t] = 1} IN
        /\ \A t \in 1..MaxSteps :
              loss.step_loss[t] = IF t \in valid THEN ValidStepLoss(t) ELSE 0
        /\ loss.loss =
               Frac(SumSeq([t \in 1..MaxSteps |->
                               IF t \in valid THEN ValidStepLoss(t) ELSE 0]),
                    Cardinality(valid))

\* C26 witness: a dialogue with a padded step whose embeddings are similar
\* to each other and to the dialogue's has got a positive loss.
C26_Witness ==
    /\ loss.pc = "loss"
    /\ loss.mask[MaxSteps] = 0
    /\ inner(loss.emb_act[MaxSteps][1], loss.emb_act[MaxSteps][2]) > 0
    /\ inner(loss.emb_dial[MaxSteps], loss.emb_act[MaxSteps][2]) > 0
    /\ loss.step_loss[1] > 0
    /\ loss.loss.num > 0


\* C27: at each valid step sim_act holds the similarity of every pair of
\* distinct candidates of the step, pairs of two negatives included, so no
\* pair is more similar than max(sim_act) and two identical negatives
\* raise it to their self-similarity.
C27_SimActCoversEveryPair ==
    loss.pc \in {"sim", "loss"} =>
        \A t \in 1..MaxSteps :
            loss.mask[t] = 1 =>
                \A i, j \in 1..Len(loss.emb_act[t]) :
                    i < j => Similarity(loss.emb_act[t][i],
                                        loss.emb_act[t][j])
                                 <= reduce_max(loss.sim_act[t])

----------------------------------------------------------------------------
(* One session / graph pair per instance (Spec) *)

\* C28: in every state reached by train (returning or raising on its
\* configuration), continue_training, persist and load, whenever the
\* instance's session is set, its four input handles and its similarity
\* handle belong to the graph that session runs, so an instance that could
\* predict before a failed train call can still predict after it.
C28_SessionRunsOwnHandles ==
    policy.session # NoSession =>
        \A h \in {policy.a_in, policy.b_in, policy.c_in, policy.b_prev_in,
                  policy.sim_op} :
            h.graph = policy.session.graph

----------------------------------------------------------------------------
(* RasaCoreClient.upload_model and RemoteAgent.process_message: SpecRemote *)

\* largest max_retries a caller other than RemoteAgent.load passes
MaxRetries == 3

\* largest number of actions the server predicts before it stops answering
MaxTurns == 2

\* core_client.upload_model(path, max_retries=5) in RemoteAgent.load
LoadRetries == 5

\* rasa_core.actions.action.ACTION_LISTEN_NAME
ACTION_LISTEN_NAME == "action_listen"

\* what parse and continue_core return: None on a status other than 200,
\* else the decoded body
NoResponse == [json |-> FALSE, keys |-> {}, next_action |-> "None"]

\* the decoded bodies a server sends: an empty object, an object without
\* next_action, one with next_action null, and objects naming an action of
\* the domain
Bodies ==
    { [json |-> TRUE, keys |-> {}, next_action |-> "None"],
      [json |-> TRUE, keys |-> {"tracker"}, next_action |-> "None"],
      [json |-> TRUE, keys |-> {"next_action"}, next_action |-> "None"],
      [json |-> TRUE, keys |-> {"next_action"},
       next_action |-> ACTION_LISTEN_NAME],
      [json |-> TRUE, keys |-> {"next_action"}, next_action |-> "utter_greet"],
      [json |-> TRUE, keys |-> {"next_action"},
       next_action |-> "action_custom"] }

Responses == {NoResponse} \cup Bodies

\* the truth value of a response: None and the empty dict are false
truthy(response) == response.json /\ response.keys # {}

\* mutant of loop_continues: the listen action is not told apart from the
\* other actions
loop_continues_on_listen(response) == truthy(response)

\* while response and response.get("next_action") != ACTION_LISTEN_NAME
loop_continues(response) ==
    truthy(response) /\ response.next_action # ACTION_LISTEN_NAME

\* what action.run(dispatcher, tracker, domain) does: the messages it has
\* dispatched, and the events it returns unless it raises
Outcomes ==
    [ raised : BOOLEAN, bot_messages : {<<>>, <<"hello">>},
      action_events : {<<>>, <<"SlotSet">>} ]

\* try: action_events = action.run(...) except Exception: action_events = []
action_events_of(outcome) ==
    IF outcome.raised THEN <<>> ELSE outcome.action_events

\* events = [BotUttered(m) for m in dispatcher.latest_bot_messages], then
\* events.extend(action_events)
events_of(outcome) ==
    [i \in 1..Len(outcome.bot_messages) |->
        [event |-> "BotUttered", text |-> outcome.bot_messages[i]]]
    \o [i \in 1..Len(action_events_of(outcome)) |->
           [event |-> action_events_of(outcome)[i], text |-> ""]]

\* the status codes a server answers a post with
StatusCodes == {200, 500}

\* a client that has made no call yet
idle_client ==
    [ pc |-> "idle", n |-> 0, max_retries |-> 0, posts |-> <<>>,
      ret |-> "None", response |-> NoResponse, responses |-> <<>>,
      runs |-> <<>>, continues |-> <<>>, trackers |-> 0 ]

InitRemote ==
    /\ policy = untrained_policy("standard")
    /\ disk = AbsentPath
    /\ call = NoCall
    /\ hp = IdleHp
    /\ batch = IdleBatch
    /\ attn = IdleAttn
    /\ fit = IdleFit
    /\ cont = IdleCont
    /\ loss = IdleLoss
    /\ remote = idle_client

\* upload_model(model_dir, max_retries) up to the loop
UploadModel(max_retries) ==
    /\ remote.pc = "idle"
    /\ remote' = [remote EXCEPT !.pc = "upload", !.n = max_retries,
                                !.max_retries = max_retries]
    /\ UNCHANGED <<policy, disk, call, hp, batch, attn, fit, cont, loss>>

\* one pass of `while max_retries > 0': the post, the decrement, and either
\* the return of the decoded body or the sleep and a second decrement
UploadPost(status_code) ==
    /\ remote.pc = "upload"
    /\ remote.max_retries > 0
    /\ remote' = [remote EXCEPT
                    !.posts = Append(remote.posts, status_code),
                    !.max_retries = IF status_code = 200
                                    THEN remote.max_retries - 1
                                    ELSE remote.max_retries - 2,
                    !.pc = IF status_code = 200 THEN "returned"
                                                ELSE "upload",
                    !.ret = IF status_code = 200 THEN "json" ELSE "None"]
    /\ UNCHANGED <<policy, disk, call, hp, batch, attn, fit, cont, loss>>

\* the loop is left with max_retries <= 0: the warning and `return None'
UploadGivesUp ==
    /\ remote.pc = "upload"
    /\ remote.max_retries <= 0
    /\ remote' = [remote EXCEPT !.pc = "returned", !.ret = "None"]
    /\ UNCHANGED <<policy, disk, call, hp, batch, attn, fit, cont, loss>>

\* response = self.core_client.parse(message.text, message.sender_id)
ProcessMessage(response) ==
    /\ remote.pc = "idle"
    /\ remote' = [remote EXCEPT !.pc = "process", !.response = response,
                                !.responses = <<response>>]
    /\ UNCHANGED <<policy, disk, call, hp, batch, attn, fit, cont, loss>>

\* one pass of the while loop of process_message: the tracker is
\* retrieved, and either the named action runs and continue_core answers
\* with next_response, or the response is dropped
ProcessAction(outcome, next_response) ==
    /\ remote.pc = "process"
    /\ loop_continues(remote.response)
    /\ Len(remote.runs) < MaxTurns
    /\ IF remote.response.next_action # "None"
       THEN remote' = [remote EXCEPT
               !.trackers = remote.trackers + 1,
               !.runs = Append(remote.runs,
                               [name |-> remote.response.next_action,
                                outcome |-> outcome]),
               !.continues = Append(remote.continues,
                                    [executed_action |->
                                         remote.response.next_action,
                                     events |-> events_of(outcome)]),
               !.response = next_response,
               !.responses = Append(remote.responses, next_response)]
       ELSE remote' = [remote EXCEPT
               !.trackers = remote.trackers + 1,
               !.response = NoResponse]
    /\ UNCHANGED <<policy, disk, call, hp, batch, attn, fit, cont, loss>>

\* the loop condition is false: "Done processing message"
ProcessDone ==
    /\ remote.pc = "process"
    /\ ~loop_continues(remote.response)
    /\ remote' = [remote EXCEPT !.pc = "done"]
    /\ UNCHANGED <<policy, disk, call, hp, batch, attn, fit, cont, loss>>

NextRemote ==
    \/ \E max_retries \in (1..MaxRetries) \cup {LoadRetries} :
           UploadModel(max_retries)
    \/ \E status_code \in StatusCodes : UploadPost(status_code)
    \/ UploadGivesUp
    \/ \E response \in Responses : ProcessMessage(response)
    \/ \E outcome \in Outcomes, next_response \in Responses :
           ProcessAction(outcome, next_response)
    \/ ProcessDone

SpecRemote == InitRemote /\ [][NextRemote]_vars

\* the posts of an upload that were answered with a status other than 200
FailedPosts == {i \in 1..Len(remote.posts) : remote.posts[i] # 200}

\* C29: upload_model with max_retries = n >= 1 posts the model up to n
\* times while the server answers with a status other than 200, returns the
\* decoded response at the first 200 without posting again, and returns
\* None only after n failed posts.
C29_PostsUntilRetriesUsedUp ==
    /\ remote.pc \in {"upload", "returned"} => Len(remote.posts) <= remote.n
    /\ (remote.pc = "returned" /\ remote.ret = "json")
          => /\ remote.posts[Len(remote.posts)] = 200
             /\ FailedPosts = 1..(Len(remote.posts) - 1)
    /\ (remote.pc = "returned" /\ remote.ret = "None")
          => /\ FailedPosts = 1..Len(remote.posts)
             /\ Len(remote.posts) = remote.n


\* a response that ends the processing: empty, naming no next action, or
\* naming the listen action
Stops(response) ==
    \/ ~response.json
    \/ response.keys = {}
    \/ response.next_action = "None"
    \/ response.next_action = ACTION_LISTEN_NAME

\* C30: process_message stops exactly when the remote response is empty,
\* names no next action or names the listen action; for every response
\* naming another action it runs that action once and then calls
\* continue_core once with that action name; when the action raises,
\* continue_core is still called, with the bot utterances already
\* dispatched and no action events.
C30_RunsEachNamedActionOnce ==
    remote.pc \in {"process", "done"} =>
        LET answered == Len(remote.responses) IN
        /\ \A i \in 1..(answered - 1) : ~Stops(remote.responses[i])
        /\ Len(remote.runs) = answered - 1
        /\ Len(remote.continues) = answered - 1
        /\ remote.pc = "done" => Stops(remote.responses[answered])
        /\ \A i \in 1..(answered - 1) :
              LET run == remote.runs[i]
                  sent == remote.continues[i]
                  said == Len(run.outcome.bot_messages)
              IN  /\ run.name = remote.responses[i].next_action
                  /\ sent.executed_action = run.name
                  /\ \A k \in 1..said :
                        sent.events[k] =
                            [event |-> "BotUttered",
                             text |-> run.outcome.bot_messages[k]]
                  /\ IF run.outcome.raised
                     THEN Len(sent.events) = said
                     ELSE /\ Len(sent.events)
                                = said + Len(run.outcome.action_events)
                          /\ \A k \in 1..Len(run.outcome.action_events) :
                                sent.events[said + k].event
                                    = run.outcome.action_events[k]

\* C30 witness: an action that raised after dispatching an utterance was
\* followed by continue_core, whose answer named another action, which ran
\* too, and the processing ended on the listen action.
C30_Witness ==
    /\ remote.pc = "done"
    /\ Len(remote.runs) = 2
    /\ remote.runs[1].outcome.raised
    /\ remote.runs[1].outcome.bot_messages # <<>>
    /\ remote.runs[1].outcome.action_events # <<>>
    /\ remote.continues[1].events
           = <<[event |-> "BotUttered", text |-> "hello"]>>
    /\ remote.responses[3].next_action = ACTION_LISTEN_NAME

====
